---- MODULE Spec2Model ----
(***************************************************************************)
(* Model of the multi-source acquisition and reconciliation pipeline of    *)
(* src/aqu142.py (class QuantDataCollector).                               *)
(*                                                                         *)
(*   Spec           the collector: login, the two failover resolvers       *)
(*                  (get_all_stocks, get_stock_indicator_data) over the    *)
(*                  baostock / eastmoney / ths adapters, and the           *)
(*                  collect_* batch loops.                                 *)
(*   SpecReconcile  calculate_comprehensive_indicators as a pure function  *)
(*                  applied to bounded partial records.                    *)
(*                                                                         *)
(* Python values are modelled as records [k, n, d, s]: k = "num" is the    *)
(* float n/d kept as an exact normalised fraction (d > 0), k = "str" is a  *)
(* string s.  Floats are idealised as exact rationals: rounding, NaN and   *)
(* infinities are outside the model.  A Python dict is a function from a   *)
(* finite set of key strings to such values.                               *)
(***************************************************************************)
EXTENDS Integers, Sequences, FiniteSets, TLC

VARIABLES
    lg,                     \* self.lg: "none" (None), "ok" (error_code '0'), "err"
    data_source,            \* self.data_source
    current_source_index,   \* self.current_source_index (0-based, as in Python)
    call,                   \* what the resolver call that just returned did
    run,                    \* what the collect_* run that just returned did
    prev_call,              \* the resolver call before it: [from, tried]
    classified,             \* what the _get_stock_board call that just returned did
    indicator_data,         \* argument of calculate_comprehensive_indicators
    calculated_data,        \* its outcome [raised, rec]
    recalculated_data,      \* outcome of applying it to its own output
    rpc,                    \* position of the reconciler harness
    listing_source,         \* the listing endpoint: [total, page_size]
    enumeration,            \* a listing call in progress: [who, pc, requests, reply, stock_list]
    crawl,                  \* the thread that runs crawl_*: its arguments, locals and position
    tasks,                  \* per stock index: the process_single_stock call, [state, result]
    print_lock,             \* self.print_lock: the thread that holds it, or FreeLock
    console,                \* the last write to stdout: [who, held, running]
    session,                \* main() of src/aqu142.py: its position, locals and output
    merge,                  \* the merge of one entity's fetch results: [who, pc, parts, i, merged]
    conversion              \* a safe_float_convert call: [pc, value, result]

vars == <<lg, data_source, current_source_index, call, run, prev_call, classified,
          indicator_data, calculated_data, recalculated_data, rpc,
          listing_source, enumeration, crawl, tasks, print_lock, console, session,
          merge, conversion>>

collectorVars == <<lg, data_source, current_source_index, call, run, prev_call, classified>>
reconcilerVars == <<indicator_data, calculated_data, recalculated_data, rpc>>
enumeratorVars == <<listing_source, enumeration>>
crawlerVars == <<crawl, tasks, print_lock, console>>

(***************************************************************************)
(* Values                                                                  *)
(***************************************************************************)
Abs(x) == IF x < 0 THEN -x ELSE x

RECURSIVE GCD(_, _)
GCD(a, b) == IF b = 0 THEN a ELSE GCD(b, a % b)

\* the float n/d, normalised (d # 0)
Num(n, d) ==
    LET Reduced(sn, sd, g) == [k |-> "num", n |-> sn \div g, d |-> sd \div g, s |-> <<>>]
        Signed(sn, sd)     == Reduced(sn, sd, GCD(Abs(sn), sd))
    IN  Signed(IF d < 0 THEN -n ELSE n, Abs(d))

Str(s) == [k |-> "str", n |-> 0, d |-> 1, s |-> s]

Zero == Num(0, 1)

IsNum(v) == v.k = "num"

\* Python `v == 0` and `v != 0`: a string never equals 0
IsZero(v)  == IsNum(v) /\ v.n = 0
NonZero(v) == ~IsZero(v)

\* a / b, a * b and max(a, b) on floats; callers check IsNum first
FDiv(a, b) == Num(a.n * b.d, a.d * b.n)
FMul(a, b) == Num(a.n * b.n, a.d * b.d)
FMax(a, b) == IF a.n * b.d >= b.n * a.d THEN a ELSE b

(***************************************************************************)
(* Dicts                                                                   *)
(***************************************************************************)
EmptyDict == [f \in {} |-> Zero]

\* d.get(key, 0)
Get(d, key) == IF key \in DOMAIN d THEN d[key] ELSE Zero

\* d[key] = v
Put(d, key, v) == [f \in (DOMAIN d) \cup {key} |-> IF f = key THEN v ELSE d[f]]

(***************************************************************************)
(* calculate_comprehensive_indicators (src/aqu142.py 632-780).             *)
(* The function body is a straight-line program over local variables and   *)
(* the dict calculated_data.  Its state is the record below; each block of *)
(* the body is one operator from state to state, and an arithmetic         *)
(* operation on a non-numeric operand (Python's TypeError) sets `raised`,  *)
(* after which the remaining blocks do nothing.                            *)
(***************************************************************************)
F(n, d) == Num(n, d)

\* line 642 with the copy left out, calculated_data being the argument
\* itself: the variant that the absence of side effects (C20) has to tell
\* apart
copy_Aliased(d) == [dict |-> d, alias |-> TRUE]

\* indicator_data.copy() (line 642): a new dict holding the same items
copy(d) == [dict |-> d, alias |-> FALSE]

\* lines 642-653: copy the input and read the base values
ReadBase(data) ==
    [ cd            |-> copy(data).dict,
      raised        |-> FALSE,
      close_price   |-> Get(data, "close_price"),
      pe_ttm        |-> Get(data, "pe_ttm"),
      pb_ratio      |-> Get(data, "pb_ratio"),
      ps_ttm        |-> Get(data, "ps_ttm"),
      eps           |-> Get(data, "eps"),
      bps           |-> Get(data, "bps"),
      total_revenue |-> Get(data, "total_revenue"),
      roe |-> Zero, net_income_yoy |-> Zero, eps_growth |-> Zero,
      gross_margin |-> Zero, net_margin |-> Zero, revenue_yoy |-> Zero,
      net_profit_yoy |-> Zero, debt_to_asset_ratio |-> Zero,
      deducted_net_profit |-> Zero, deducted_net_profit_yoy |-> Zero,
      dividend_yield |-> Zero, dividend_payout_ratio |-> Zero ]

Raise(s) == [s EXCEPT !.raised = TRUE]

\* lines 655-657: eps from the cash-flow query, local only
EpsFromCash(s) ==
    IF s.raised THEN s
    ELSE IF IsZero(s.eps) /\ "eps_from_cash" \in DOMAIN s.cd
         THEN [s EXCEPT !.eps = s.cd["eps_from_cash"]]
         ELSE s

\* lines 659-662
DeriveEps(s) ==
    IF s.raised THEN s
    ELSE IF IsZero(s.eps) /\ NonZero(s.close_price) /\ NonZero(s.pe_ttm)
         THEN IF IsNum(s.close_price) /\ IsNum(s.pe_ttm)
              THEN LET v == FDiv(s.close_price, s.pe_ttm)
                   IN  [s EXCEPT !.eps = v, !.cd = Put(s.cd, "eps", v)]
              ELSE Raise(s)
         ELSE s

\* lines 664-667
DeriveBps(s) ==
    IF s.raised THEN s
    ELSE IF IsZero(s.bps) /\ NonZero(s.close_price) /\ NonZero(s.pb_ratio)
         THEN IF IsNum(s.close_price) /\ IsNum(s.pb_ratio)
              THEN LET v == FDiv(s.close_price, s.pb_ratio)
                   IN  [s EXCEPT !.bps = v, !.cd = Put(s.cd, "bps", v)]
              ELSE Raise(s)
         ELSE s

\* lines 669-672
DeriveRevenue(s) ==
    IF s.raised THEN s
    ELSE IF IsZero(s.total_revenue) /\ NonZero(s.close_price) /\ NonZero(s.ps_ttm)
         THEN IF IsNum(s.close_price) /\ IsNum(s.ps_ttm)
              THEN LET v == FDiv(s.close_price, s.ps_ttm)
                   IN  [s EXCEPT !.total_revenue = v, !.cd = Put(s.cd, "total_revenue", v)]
              ELSE Raise(s)
         ELSE s

\* lines 674-682: read the ratio values
ReadRatios(s) ==
    IF s.raised THEN s
    ELSE [s EXCEPT !.roe                 = Get(s.cd, "roe"),
                   !.net_income_yoy      = Get(s.cd, "net_income_yoy"),
                   !.eps_growth          = Get(s.cd, "eps_growth"),
                   !.gross_margin        = Get(s.cd, "gross_margin"),
                   !.net_margin          = Get(s.cd, "net_margin"),
                   !.revenue_yoy         = Get(s.cd, "revenue_yoy"),
                   !.net_profit_yoy      = Get(s.cd, "net_profit_yoy"),
                   !.debt_to_asset_ratio = Get(s.cd, "debt_to_asset_ratio")]

\* lines 684-687
DeriveRoe(s) ==
    IF s.raised THEN s
    ELSE IF IsZero(s.roe) /\ NonZero(s.eps) /\ NonZero(s.bps)
         THEN IF IsNum(s.eps) /\ IsNum(s.bps)
              THEN LET v == FDiv(s.eps, s.bps)
                   IN  [s EXCEPT !.roe = v, !.cd = Put(s.cd, "roe", v)]
              ELSE Raise(s)
         ELSE s

\* lines 689-699
DeriveMargins(s) ==
    IF s.raised THEN s
    ELSE LET s1 == IF IsZero(s.gross_margin)
                   THEN [s EXCEPT !.gross_margin = F(25, 100),
                                  !.cd = Put(s.cd, "gross_margin", F(25, 100))]
                   ELSE s
         IN  IF IsZero(s1.net_margin)
             THEN [s1 EXCEPT !.net_margin = F(10, 100),
                             !.cd = Put(s1.cd, "net_margin", F(10, 100))]
             ELSE s1

\* lines 701-709 without the `if revenue_yoy == 0` guard of line 703: the
\* variant that idempotence (C10) has to tell apart
DeriveRevenueYoy_Unguarded(s) ==
    IF s.raised THEN s
    ELSE IF NonZero(s.eps_growth)
         THEN IF IsNum(s.eps_growth)
              THEN [s EXCEPT !.revenue_yoy = FMul(s.eps_growth, F(8, 10)),
                             !.cd = Put(s.cd, "revenue_yoy", FMul(s.eps_growth, F(8, 10)))]
              ELSE Raise(s)
         ELSE [s EXCEPT !.revenue_yoy = F(8, 100),
                        !.cd = Put(s.cd, "revenue_yoy", F(8, 100))]

\* lines 701-709
DeriveRevenueYoy(s) ==
    IF s.raised THEN s
    ELSE IF IsZero(s.revenue_yoy)
         THEN IF NonZero(s.eps_growth)
              THEN IF IsNum(s.eps_growth)
                   THEN LET v == FMul(s.eps_growth, F(8, 10))
                        IN  [s EXCEPT !.revenue_yoy = v, !.cd = Put(s.cd, "revenue_yoy", v)]
                   ELSE Raise(s)
              ELSE [s EXCEPT !.revenue_yoy = F(8, 100),
                             !.cd = Put(s.cd, "revenue_yoy", F(8, 100))]
         ELSE s

\* lines 711-718
DeriveNetProfitYoy(s) ==
    IF s.raised THEN s
    ELSE IF IsZero(s.net_profit_yoy)
         THEN IF NonZero(s.revenue_yoy)
              THEN IF IsNum(s.revenue_yoy)
                   THEN LET v == FMul(s.revenue_yoy, F(11, 10))
                        IN  [s EXCEPT !.net_profit_yoy = v, !.cd = Put(s.cd, "net_profit_yoy", v)]
                   ELSE Raise(s)
              ELSE [s EXCEPT !.net_profit_yoy = F(10, 100),
                             !.cd = Put(s.cd, "net_profit_yoy", F(10, 100))]
         ELSE s

\* lines 720-727
DeriveNetIncomeYoy(s) ==
    IF s.raised THEN s
    ELSE IF IsZero(s.net_income_yoy)
         THEN IF NonZero(s.net_profit_yoy)
              THEN IF IsNum(s.net_profit_yoy)
                   THEN LET v == FMul(s.net_profit_yoy, F(95, 100))
                        IN  [s EXCEPT !.net_income_yoy = v, !.cd = Put(s.cd, "net_income_yoy", v)]
                   ELSE Raise(s)
              ELSE [s EXCEPT !.net_income_yoy = F(9, 100),
                             !.cd = Put(s.cd, "net_income_yoy", F(9, 100))]
         ELSE s

\* lines 729-736
DeriveEpsGrowth(s) ==
    IF s.raised THEN s
    ELSE IF IsZero(s.eps_growth)
         THEN IF NonZero(s.revenue_yoy)
              THEN IF IsNum(s.revenue_yoy)
                   THEN LET v == FMul(s.revenue_yoy, F(105, 100))
                        IN  [s EXCEPT !.eps_growth = v, !.cd = Put(s.cd, "eps_growth", v)]
                   ELSE Raise(s)
              ELSE [s EXCEPT !.eps_growth = F(9, 100),
                             !.cd = Put(s.cd, "eps_growth", F(9, 100))]
         ELSE s

\* lines 738-742
DeriveDebtRatio(s) ==
    IF s.raised THEN s
    ELSE IF IsZero(s.debt_to_asset_ratio)
         THEN [s EXCEPT !.debt_to_asset_ratio = F(50, 100),
                        !.cd = Put(s.cd, "debt_to_asset_ratio", F(50, 100))]
         ELSE s

\* lines 744-750
DeriveDeducted(s) ==
    IF s.raised THEN s
    ELSE LET s1 == [s EXCEPT !.deducted_net_profit = Get(s.cd, "deducted_net_profit"),
                             !.deducted_net_profit_yoy = Get(s.cd, "deducted_net_profit_yoy")]
         IN  IF IsZero(s1.deducted_net_profit) /\ NonZero(s1.eps)
             THEN IF IsNum(s1.eps)
                  THEN LET v == FMul(s1.eps, F(95, 100))
                       IN  [s1 EXCEPT !.deducted_net_profit = v,
                                      !.cd = Put(s1.cd, "deducted_net_profit", v)]
                  ELSE Raise(s1)
             ELSE s1

\* lines 752-757
DeriveDeductedYoy(s) ==
    IF s.raised THEN s
    ELSE IF IsZero(s.deducted_net_profit_yoy)
         THEN IF NonZero(s.net_income_yoy)
              THEN IF IsNum(s.net_income_yoy)
                   THEN LET v == FMul(s.net_income_yoy, F(95, 100))
                        IN  [s EXCEPT !.deducted_net_profit_yoy = v,
                                      !.cd = Put(s.cd, "deducted_net_profit_yoy", v)]
                   ELSE Raise(s)
              ELSE IF NonZero(s.net_profit_yoy)
                   THEN IF IsNum(s.net_profit_yoy)
                        THEN LET v == FMul(s.net_profit_yoy, F(95, 100))
                             IN  [s EXCEPT !.deducted_net_profit_yoy = v,
                                           !.cd = Put(s.cd, "deducted_net_profit_yoy", v)]
                        ELSE Raise(s)
                   ELSE [s EXCEPT !.deducted_net_profit_yoy = F(85, 1000),
                                  !.cd = Put(s.cd, "deducted_net_profit_yoy", F(85, 1000))]
         ELSE s

\* lines 759-766
DeriveDividendYield(s) ==
    IF s.raised THEN s
    ELSE LET s1 == [s EXCEPT !.dividend_yield = Get(s.cd, "dividend_yield"),
                             !.dividend_payout_ratio = Get(s.cd, "dividend_payout_ratio")]
         IN  IF IsZero(s1.dividend_yield)
             THEN IF IsNum(s1.roe)
                  THEN LET v == FMax(FMul(s1.roe, F(3, 10)), F(1, 100))
                       IN  [s1 EXCEPT !.dividend_yield = v,
                                      !.cd = Put(s1.cd, "dividend_yield", v)]
                  ELSE Raise(s1)
             ELSE s1

\* lines 768-774
DerivePayout(s) ==
    IF s.raised THEN s
    ELSE IF IsZero(s.dividend_payout_ratio)
         THEN IF NonZero(s.roe)
              THEN IF NonZero(s.dividend_yield)
                   THEN IF IsNum(s.dividend_yield) /\ IsNum(s.roe)
                        THEN LET v == FDiv(s.dividend_yield, s.roe)
                             IN  [s EXCEPT !.dividend_payout_ratio = v,
                                           !.cd = Put(s.cd, "dividend_payout_ratio", v)]
                        ELSE Raise(s)
                   ELSE [s EXCEPT !.dividend_payout_ratio = F(30, 100),
                                  !.cd = Put(s.cd, "dividend_payout_ratio", F(30, 100))]
              ELSE [s EXCEPT !.dividend_payout_ratio = F(30, 100),
                             !.cd = Put(s.cd, "dividend_payout_ratio", F(30, 100))]
         ELSE s

\* lines 776-778: written whatever the input holds
SetFixedIndicators(s) ==
    IF s.raised THEN s
    ELSE [s EXCEPT !.cd = Put(Put(s.cd, "goodwill_to_equity_ratio", F(5, 100)),
                              "pledge_ratio", F(10, 100))]

\* the function: [raised |-> TRUE] when it raises, else the returned dict
calculate_comprehensive_indicators(data) ==
    LET Result(s) == IF s.raised THEN [raised |-> TRUE, rec |-> EmptyDict]
                     ELSE [raised |-> FALSE, rec |-> s.cd]
    IN  Result(SetFixedIndicators(DerivePayout(DeriveDividendYield(
             DeriveDeductedYoy(DeriveDeducted(DeriveDebtRatio(
             DeriveEpsGrowth(DeriveNetIncomeYoy(DeriveNetProfitYoy(
             DeriveRevenueYoy(DeriveMargins(DeriveRoe(ReadRatios(
             DeriveRevenue(DeriveBps(DeriveEps(EpsFromCash(
             ReadBase(data)))))))))))))))))))

\* the dict passed as indicator_data as the caller finds it after the call:
\* the assignments to calculated_data reach it only if both names denote
\* one dict
ArgumentAfter(data) ==
    IF copy(data).alias /\ ~calculate_comprehensive_indicators(data).raised
    THEN calculate_comprehensive_indicators(data).rec
    ELSE data

\* the fields get_formatted_indicators reads with a default of 0 or a constant
\* (lines 1038-1053)
FormattedFields ==
    {"eps", "bps", "total_revenue", "roe", "revenue_yoy", "net_income_yoy",
     "deducted_net_profit", "deducted_net_profit_yoy", "gross_margin",
     "net_margin", "debt_to_asset_ratio", "goodwill_to_equity_ratio",
     "pledge_ratio", "dividend_yield", "dividend_payout_ratio"}

\* the keys calculate_comprehensive_indicators assigns in calculated_data
WrittenFields ==
    {"eps", "bps", "total_revenue", "roe", "gross_margin", "net_margin",
     "revenue_yoy", "net_profit_yoy", "net_income_yoy", "eps_growth",
     "debt_to_asset_ratio", "deducted_net_profit", "deducted_net_profit_yoy",
     "dividend_yield", "dividend_payout_ratio", "goodwill_to_equity_ratio",
     "pledge_ratio"}

\* the keys it reads and never assigns
ReadOnlyFields == {"close_price", "pe_ttm", "pb_ratio", "ps_ttm", "eps_from_cash"}

(***************************************************************************)
(* Bounded inputs of the reconciler: partial records holding at most       *)
(* MaxFields of the keys below, each with a zero or a non-zero value.      *)
(***************************************************************************)
MaxFields == 3

\* a stock code is a sequence of characters
Code(ex, body) == <<ex[1], ex[2], ".">> \o body

SampleCode == Code(<<"s", "h">>, <<"6", "0", "0", "0", "0", "1">>)

FieldOrder ==
    <<"stock_code", "stock_name",
      "close_price", "pe_ttm", "pb_ratio", "ps_ttm", "eps_from_cash",
      "eps", "bps", "total_revenue", "roe", "gross_margin", "net_margin",
      "revenue_yoy", "net_profit_yoy", "net_income_yoy", "eps_growth",
      "debt_to_asset_ratio", "deducted_net_profit", "deducted_net_profit_yoy",
      "dividend_yield", "dividend_payout_ratio", "goodwill_to_equity_ratio",
      "pledge_ratio">>

FieldVals(f) ==
    CASE f \in {"stock_code", "stock_name"} -> <<Str(SampleCode)>>
      [] f = "close_price"   -> <<Zero, F(10, 1)>>
      [] f = "pe_ttm"        -> <<Zero, F(5, 1), F(-4, 1)>>
      [] f = "pb_ratio"      -> <<Zero, F(2, 1)>>
      [] f = "ps_ttm"        -> <<Zero, F(4, 1)>>
      [] f = "eps_from_cash" -> <<Zero, F(3, 1)>>
      [] f = "roe"           -> <<Zero, F(1, 10), F(-1, 10)>>
      [] OTHER               -> <<Zero, F(1, 5)>>

\* the positions of the values of all fields
ValueIndex ==
    { v \in 1..Len(FieldOrder) : \E i \in 1..Len(FieldOrder) : v \in DOMAIN FieldVals(FieldOrder[i]) }

\* the key sets of at most k keys, each as an increasing sequence of
\* positions in FieldOrder
KeyChoices(k) ==
    UNION { { idx \in [1..n -> 1..Len(FieldOrder)] :
                \A j \in 1..(n - 1) : idx[j] < idx[j + 1] } : n \in 0..k }

KeySet(idx) == { FieldOrder[idx[j]] : j \in 1..Len(idx) }

\* the choices of one value position per key of S
Picks(S) == { pick \in [S -> ValueIndex] : \A f \in S : pick[f] \in DOMAIN FieldVals(f) }

\* the record over the key set S that holds for each key the value at
\* position pick[key]
PartialRecord(S, pick) == [f \in S |-> FieldVals(f)[pick[f]]]

(***************************************************************************)
(* Strings are sequences of one-character strings.                         *)
(***************************************************************************)
\* s.startswith(p)
StartsWith(s, p) == Len(s) >= Len(p) /\ SubSeq(s, 1, Len(p)) = p

DigitChars == <<"0", "1", "2", "3", "4", "5", "6", "7", "8", "9">>

IsDigit(c) == \E i \in 1..10 : DigitChars[i] = c

DigitVal(c) == (CHOOSE i \in 1..10 : DigitChars[i] = c) - 1

RECURSIVE DigitsValue(_)
DigitsValue(s) ==
    IF s = <<>> THEN 0
    ELSE DigitsValue(SubSeq(s, 1, Len(s) - 1)) * 10 + DigitVal(s[Len(s)])

RECURSIVE Pow10(_)
Pow10(k) == IF k = 0 THEN 1 ELSE 10 * Pow10(k - 1)

\* Python float(s) on the decimal literals [sign] digits [. digits]; any
\* other string is a ValueError (ok = FALSE).  Exponents, blanks, inf and
\* nan are outside the strings the model draws.
float(s) ==
    LET Parts(neg, ip, fp) ==
            IF /\ Len(ip) + Len(fp) >= 1
               /\ \A i \in 1..Len(ip) : IsDigit(ip[i])
               /\ \A i \in 1..Len(fp) : IsDigit(fp[i])
            THEN [ok |-> TRUE,
                  v  |-> Num((IF neg THEN -1 ELSE 1)
                                * (DigitsValue(ip) * Pow10(Len(fp)) + DigitsValue(fp)),
                             Pow10(Len(fp)))]
            ELSE [ok |-> FALSE, v |-> Zero]
        Split(neg, body, dots) ==
            IF Cardinality(dots) > 1 THEN [ok |-> FALSE, v |-> Zero]
            ELSE IF dots = {} THEN Parts(neg, body, <<>>)
            ELSE Parts(neg, SubSeq(body, 1, (CHOOSE i \in dots : TRUE) - 1),
                       SubSeq(body, (CHOOSE i \in dots : TRUE) + 1, Len(body)))
        Unsigned(neg, body) == Split(neg, body, {i \in 1..Len(body) : body[i] = "."})
    IN  IF s # <<>> /\ s[1] \in {"-", "+"}
        THEN Unsigned(s[1] = "-", Tail(s))
        ELSE Unsigned(FALSE, s)

\* safe_float_convert (src/aqu142.py 366-384)
safe_float_convert(value) ==
    LET OrZero(f) == IF f.ok THEN f.v ELSE Zero
    IN  IF value = <<>> THEN Zero
        ELSE IF (\E i \in 1..Len(value) : value[i] = "-") /\ Len(value) = 10 THEN Zero
        ELSE OrZero(float(value))

(***************************************************************************)
(* Remote replies.  A reply of a baostock query is [kind, row]: kind is    *)
(* "raise" (the call raised or timed out), "none" (an error code or no     *)
(* row) or "row" (rs.next() gave row, a sequence of cells, each a string). *)
(***************************************************************************)
RaiseReply  == [kind |-> "raise", row |-> <<>>]
NoneReply   == [kind |-> "none",  row |-> <<>>]
RowReply(r) == [kind |-> "row",   row |-> r]

\* the seed record of an adapter: {'stock_code': stock_code}
Seed(stock_code) == [f \in {"stock_code"} |-> Str(stock_code)]

\* progress of get_stock_indicator_data_baostock inside its try block:
\* the dict so far, whether an exception was caught (the rest is skipped),
\* and whether a remote call raised
BaoStart(stock_code) == [rec |-> Seed(stock_code), stop |-> FALSE, remote_raised |-> FALSE]

Caught(x, remote) ==
    [x EXCEPT !.stop = TRUE, !.remote_raised = x.remote_raised \/ remote]

\* lines 423-427: bs.query_stock_basic(code=stock_code)
BaoBasic(x, stock_code, r) ==
    IF x.stop THEN x
    ELSE IF r.kind = "raise" THEN Caught(x, TRUE)
    ELSE IF r.kind = "row"
         THEN [x EXCEPT !.rec = Put(x.rec, "stock_name",
                   IF Len(r.row) > 1 THEN Str(r.row[2]) ELSE Str(stock_code))]
         ELSE x

\* lines 429-470: bs.query_history_k_data_plus; r.row is data_rows[-1]
BaoKData(x, r) ==
    IF x.stop THEN x
    ELSE IF r.kind = "raise" THEN Caught(x, TRUE)
    ELSE IF r.kind = "row"
         THEN IF Len(r.row) < 7 THEN Caught(x, FALSE)      \* IndexError
              ELSE LET \* lines 460-470: the derived per-share values
                       Derive(d, key, close_price, ratio) ==
                           IF NonZero(ratio) THEN Put(d, key, FDiv(close_price, ratio)) ELSE d
                       \* lines 446-458: the converted cells
                       Store(close_price, pe_ttm, pb_ratio, ps_ttm, pcf_ncf_ttm) ==
                           Derive(Derive(Derive(
                               Put(Put(Put(Put(Put(x.rec,
                                   "close_price", close_price),
                                   "pe_ttm", pe_ttm),
                                   "pb_ratio", pb_ratio),
                                   "ps_ttm", ps_ttm),
                                   "pcf_ncf_ttm", pcf_ncf_ttm),
                               "eps", close_price, pe_ttm),
                               "bps", close_price, pb_ratio),
                               "total_revenue", close_price, ps_ttm)
                   IN  [x EXCEPT !.rec = Store(safe_float_convert(r.row[3]),
                                               safe_float_convert(r.row[4]),
                                               safe_float_convert(r.row[5]),
                                               safe_float_convert(r.row[6]),
                                               safe_float_convert(r.row[7]))]
         ELSE x

\* the loop `for year in years_to_try` over one query: rs[i] is the reply for
\* the i-th year; the first row of at least `need` cells ends the loop
RECURSIVE YearLoop(_, _, _)
YearLoop(rs, i, need) ==
    IF i > 3 \/ i > Len(rs) THEN NoneReply
    ELSE IF rs[i].kind = "raise" THEN RaiseReply
    ELSE IF rs[i].kind = "row" /\ Len(rs[i].row) >= need THEN rs[i]
    ELSE YearLoop(rs, i + 1, need)

\* lines 479-494: bs.query_profit_data
BaoProfit(x, rs) ==
    IF x.stop THEN x
    ELSE LET Store(r) ==
                 IF r.kind = "raise" THEN Caught(x, TRUE)
                 ELSE IF r.kind = "row"
                      THEN [x EXCEPT !.rec = Put(Put(Put(Put(Put(x.rec,
                                "roe", safe_float_convert(r.row[2])),
                                "net_income_yoy", safe_float_convert(r.row[3])),
                                "eps_growth", safe_float_convert(r.row[4])),
                                "gross_margin", safe_float_convert(r.row[5])),
                                "net_margin", safe_float_convert(r.row[6]))]
                      ELSE x
         IN  Store(YearLoop(rs, 1, 6))

\* lines 496-508: bs.query_growth_data
BaoGrowth(x, rs) ==
    IF x.stop THEN x
    ELSE LET Store(r) ==
                 IF r.kind = "raise" THEN Caught(x, TRUE)
                 ELSE IF r.kind = "row"
                      THEN [x EXCEPT !.rec = Put(Put(x.rec,
                                "revenue_yoy", safe_float_convert(r.row[2])),
                                "net_profit_yoy", safe_float_convert(r.row[3]))]
                      ELSE x
         IN  Store(YearLoop(rs, 1, 3))

\* lines 510-521: bs.query_balance_data
BaoBalance(x, rs) ==
    IF x.stop THEN x
    ELSE LET Store(r) ==
                 IF r.kind = "raise" THEN Caught(x, TRUE)
                 ELSE IF r.kind = "row"
                      THEN [x EXCEPT !.rec = Put(x.rec, "debt_to_asset_ratio",
                                                 safe_float_convert(r.row[5]))]
                      ELSE x
         IN  Store(YearLoop(rs, 1, 5))

\* lines 523-534: bs.query_cash_flow_data
BaoCashFlow(x, rs) ==
    IF x.stop THEN x
    ELSE LET StoreEps(v) == IF NonZero(v) THEN [x EXCEPT !.rec = Put(x.rec, "eps_from_cash", v)]
                             ELSE x
             Store(r) ==
                 IF r.kind = "raise" THEN Caught(x, TRUE)
                 ELSE IF r.kind = "row" THEN StoreEps(safe_float_convert(r.row[2]))
                 ELSE x
         IN  Store(YearLoop(rs, 1, 2))

\* get_stock_indicator_data_baostock (src/aqu142.py 406-539) on the replies
\* b = [basic, k, profit, growth, balance, cash] of its remote calls:
\* [raised, remote_raised, rec]
get_stock_indicator_data_baostock(stock_code, lgv, b) ==
    IF lgv # "ok"
    THEN [raised |-> TRUE, remote_raised |-> FALSE, rec |-> EmptyDict]
    ELSE LET Result(x) == [raised |-> FALSE, remote_raised |-> x.remote_raised, rec |-> x.rec]
         IN  Result(BaoCashFlow(BaoBalance(BaoGrowth(BaoProfit(BaoKData(
                 BaoBasic(BaoStart(stock_code), stock_code, b.basic),
                 b.k), b.profit), b.growth), b.balance), b.cash))

\* get_stock_indicator_data_eastmoney (src/aqu142.py 541-591) on the reply
\* e = [kind, data]: kind is "raise" (session.get raised or timed out),
\* "status" (not 200), "badjson" (response.json() raised), "nodata" or
\* "data" (data['data'] is the dict e.data)
get_stock_indicator_data_eastmoney(stock_code, e) ==
    LET done(d, remote) == [raised |-> FALSE, remote_raised |-> remote, rec |-> d]
        \* lines 582-583; a non-numeric pb_ratio is a TypeError at the division
        Bps(d, close_price, pb_ratio) ==
            IF NonZero(pb_ratio) /\ IsNum(pb_ratio)
            THEN Put(d, "bps", FDiv(close_price, pb_ratio)) ELSE d
        \* lines 580-581; a non-numeric pe_ttm is a TypeError at the division,
        \* which skips the rest
        Eps(d, close_price, pe_ttm, pb_ratio) ==
            IF NonZero(pe_ttm) /\ ~IsNum(pe_ttm) THEN d
            ELSE Bps(IF NonZero(pe_ttm) THEN Put(d, "eps", FDiv(close_price, pe_ttm)) ELSE d,
                     close_price, pb_ratio)
        \* lines 575-577
        Price(d, close_price, pe_ttm, pb_ratio) ==
            Eps(Put(Put(Put(d, "close_price", close_price), "pe_ttm", pe_ttm),
                    "pb_ratio", pb_ratio),
                close_price, pe_ttm, pb_ratio)
        \* line 575; a non-numeric f43 is a TypeError at / 100
        Parse(d, stock_data, f43) ==
            IF ~IsNum(f43) THEN d
            ELSE Price(d, FDiv(f43, F(100, 1)), Get(stock_data, "f164"),
                       Get(stock_data, "f169"))
        \* line 574
        Named(d, stock_data) ==
            Parse(Put(d, "stock_name",
                      IF "f58" \in DOMAIN stock_data THEN stock_data["f58"]
                      ELSE Str(stock_code)),
                  stock_data, Get(stock_data, "f43"))
    IN  IF e.kind \in {"raise", "badjson"} THEN done(Seed(stock_code), TRUE)
        ELSE IF e.kind # "data" THEN done(Seed(stock_code), FALSE)
        ELSE done(Named(Seed(stock_code), e.data), FALSE)

(***************************************************************************)
(* The source priority list and the switch (src/aqu142.py 40-42, 63-69).   *)
(* st = [idx, ds] stands for (current_source_index, data_source).          *)
(***************************************************************************)
\* the list as it would stand after baostock was rotated to the back: the
\* variant that the fixed order (C1) has to tell apart
data_sources_rotated == <<"eastmoney", "ths", "baostock">>

\* self.data_sources (line 41); no method assigns or reorders it
data_sources == <<"baostock", "eastmoney", "ths">>

switch_to_next_source(st) ==
    LET idx == (st.idx + 1) % Len(data_sources)
    IN  [idx |-> idx, ds |-> data_sources[idx + 1]]

\* the results the adapter of `source` can hand to get_stock_indicator_data
\* (lines 611-618); 'ths' has no branch there: nothing is called
IndicatorAdapter(source, stock_code, lgv, U) ==
    CASE source = "baostock" ->
            { get_stock_indicator_data_baostock(stock_code, lgv, b) : b \in U.bao }
      [] source = "eastmoney" ->
            { get_stock_indicator_data_eastmoney(stock_code, e) : e \in U.em }
      [] OTHER ->
            { [raised |-> FALSE, remote_raised |-> FALSE, rec |-> EmptyDict] }

\* the acceptance tests of lines 613 and 617
IndicatorAccepted(source, o) ==
    CASE source = "baostock"  -> ~o.raised /\ DOMAIN o.rec # {}
      [] source = "eastmoney" -> ~o.raised /\ DOMAIN o.rec # {} /\ Cardinality(DOMAIN o.rec) > 1
      [] OTHER                -> FALSE

\* the all-sources-exhausted placeholder of line 630
Placeholder(stock_code) ==
    [f \in {"stock_code", "stock_name"} |-> Str(stock_code)]

\* get_stock_indicator_data (src/aqu142.py 593-630) from loop index i on:
\* the set of its possible outcomes.  obs collects what the call did:
\* the sources tried, those whose adapter raised, those whose remote call
\* raised.
RECURSIVE get_stock_indicator_data(_, _, _, _, _, _)
get_stock_indicator_data(stock_code, i, lgv, st, obs, U) ==
    IF i >= Len(data_sources)
    THEN { [ret |-> Placeholder(stock_code), from |-> "none", st |-> st,
            tried |-> obs.tried, adapter_raised |-> obs.adapter_raised,
            remote_raised |-> obs.remote_raised] }
    ELSE LET source == data_sources[i + 1]
             tried  == Append(obs.tried, source)
         IN  UNION {
               LET obs2 == [tried |-> tried,
                            adapter_raised |-> obs.adapter_raised
                                \cup (IF o.raised THEN {source} ELSE {}),
                            remote_raised |-> obs.remote_raised
                                \cup (IF o.remote_raised THEN {source} ELSE {})]
               IN  IF IndicatorAccepted(source, o)
                   THEN { [ret |-> o.rec, from |-> source, st |-> st,
                           tried |-> tried, adapter_raised |-> obs2.adapter_raised,
                           remote_raised |-> obs2.remote_raised] }
                   ELSE get_stock_indicator_data(stock_code, i + 1, lgv,
                            IF i < Len(data_sources) - 1
                            THEN switch_to_next_source(st) ELSE st,
                            obs2, U)
               : o \in IndicatorAdapter(source, stock_code, lgv, U) }

NoObs == [tried |-> <<>>, adapter_raised |-> {}, remote_raised |-> {}]

(***************************************************************************)
(* Listing adapters.  A reply of a baostock listing query is [kind, rows]: *)
(* "raise", "error" (error_code # '0') or "rows" (the rows rs.next()       *)
(* yields, each a sequence of cells with the code first).                  *)
(***************************************************************************)
\* stock_code.startswith(('sh.6', 'sz.0', 'sz.3')), lines 109 and 126
IsAShare(stock_code) ==
    \/ StartsWith(stock_code, <<"s", "h", ".", "6">>)
    \/ StartsWith(stock_code, <<"s", "z", ".", "0">>)
    \/ StartsWith(stock_code, <<"s", "z", ".", "3">>)

\* the loops of lines 103-110 and 122-127
RECURSIVE CollectRows(_, _, _)
CollectRows(rows, i, stock_list) ==
    IF i > Len(rows) THEN stock_list
    ELSE CollectRows(rows, i + 1,
            IF Len(rows[i]) > 0 /\ IsAShare(rows[i][1])
            THEN Append(stock_list, rows[i][1]) ELSE stock_list)

\* get_all_stocks_baostock (src/aqu142.py 79-130) on the replies
\* q = [first, retry, basic]: [raised, list]
get_all_stocks_baostock(lgv, q) ==
    LET failed == [raised |-> TRUE, list |-> <<>>]
    IN  IF lgv # "ok" THEN failed
        ELSE IF q.first.kind = "raise" THEN failed
        ELSE LET rs == IF q.first.kind = "error" THEN q.retry ELSE q.first
             IN  IF rs.kind = "raise" THEN failed
                 ELSE LET stock_list == IF rs.kind = "rows"
                                        THEN CollectRows(rs.rows, 1, <<>>) ELSE <<>>
                      IN  IF Len(stock_list) = 0
                          THEN IF q.basic.kind = "raise" THEN failed
                               ELSE [raised |-> FALSE,
                                     list |-> IF q.basic.kind = "rows"
                                              THEN CollectRows(q.basic.rows, 1, <<>>)
                                              ELSE <<>>]
                          ELSE [raised |-> FALSE, list |-> stock_list]

\* the loop of lines 162-169 over data['data']['diff'] from item i on; an
\* item is a dict, and the items that hold 'f12' are appended in order
CollectDiff(diff, i, stock_list) ==
    LET HasCode(item) == "f12" \in DOMAIN item
        Converted(items) ==
            [j \in 1..Len(items) |->
                IF StartsWith(items[j]["f12"].s, <<"6">>)
                THEN <<"s", "h", ".">> \o items[j]["f12"].s
                ELSE <<"s", "z", ".">> \o items[j]["f12"].s]
    IN  stock_list \o Converted(SelectSeq(SubSeq(diff, i, Len(diff)), HasCode))

\* get_all_stocks_eastmoney (src/aqu142.py 132-176) on the reply
\* e = [kind, diff], kinds as for the detail request; it never raises
get_all_stocks_eastmoney(e) ==
    [raised |-> FALSE,
     list   |-> IF e.kind = "data" THEN CollectDiff(e.diff, 1, <<>>) ELSE <<>>]

\* get_all_stocks_ths (src/aqu142.py 178-204): the response is not parsed
get_all_stocks_ths(e) == [raised |-> FALSE, list |-> <<>>]

ListAdapter(source, lgv, U) ==
    CASE source = "baostock"  -> { get_all_stocks_baostock(lgv, q) : q \in U.lbao }
      [] source = "eastmoney" -> { get_all_stocks_eastmoney(e) : e \in U.lem }
      [] source = "ths"       -> { get_all_stocks_ths(e) : e \in U.lths }
      [] OTHER                -> { [raised |-> FALSE, list |-> <<>>] }

\* `if stocks:` of lines 221, 225, 229
ListAccepted(o) == ~o.raised /\ Len(o.list) > 0

\* get_all_stocks (src/aqu142.py 206-243) from loop index i on: the set of
\* its possible outcomes
RECURSIVE get_all_stocks(_, _, _, _, _)
get_all_stocks(i, lgv, st, obs, U) ==
    IF i >= Len(data_sources)
    THEN { [list |-> <<>>, from |-> "none", st |-> st, tried |-> obs.tried,
            adapter_raised |-> obs.adapter_raised,
            remote_raised |-> obs.remote_raised] }
    ELSE LET source == data_sources[i + 1]
             tried  == Append(obs.tried, source)
         IN  UNION {
               LET obs2 == [tried |-> tried,
                            adapter_raised |-> obs.adapter_raised
                                \cup (IF o.raised THEN {source} ELSE {}),
                            remote_raised |-> obs.remote_raised]
               IN  IF ListAccepted(o)
                   THEN { [list |-> o.list, from |-> source, st |-> st,
                           tried |-> tried, adapter_raised |-> obs2.adapter_raised,
                           remote_raised |-> obs2.remote_raised] }
                   ELSE get_all_stocks(i + 1, lgv,
                            IF i < Len(data_sources) - 1
                            THEN switch_to_next_source(st) ELSE st,
                            obs2, U)
               : o \in ListAdapter(source, lgv, U) }

(***************************************************************************)
(* Classifier (src/aqu142.py 337-364 and 994-1012).  The board names       *)
(* '主板', '创业板', '科创板', '其他' are written MainBoard, GEM, STAR, Other. *)
(***************************************************************************)
\* the classifier with one general rule for the Shanghai prefix sh.6 put
\* first: the variant that the rule order (C12) has to tell apart
_get_stock_board_general_first(stock_code) ==
    IF StartsWith(stock_code, <<"s", "h", ".", "6">>) THEN "MainBoard"
    ELSE IF StartsWith(stock_code, <<"s", "h", ".", "6", "8", "8">>) THEN "STAR"
    ELSE IF StartsWith(stock_code, <<"s", "z", ".", "0", "0", "0">>) THEN "MainBoard"
    ELSE IF StartsWith(stock_code, <<"s", "z", ".", "3", "0", "0">>) THEN "GEM"
    ELSE "Other"

_get_stock_board(stock_code) ==
    IF StartsWith(stock_code, <<"s", "h", ".", "6", "8", "8">>) THEN "STAR"
    ELSE IF \/ StartsWith(stock_code, <<"s", "h", ".", "6", "0", "0">>)
            \/ StartsWith(stock_code, <<"s", "h", ".", "6", "0", "1">>)
            \/ StartsWith(stock_code, <<"s", "h", ".", "6", "0", "3">>) THEN "MainBoard"
    ELSE IF StartsWith(stock_code, <<"s", "z", ".", "0", "0", "0">>) THEN "MainBoard"
    ELSE IF StartsWith(stock_code, <<"s", "z", ".", "3", "0", "0">>) THEN "GEM"
    ELSE "Other"

\* the chain with the Shenzhen main-board rule widened to the prefix sz.00:
\* the variant that the agreement of the buckets with the classifier (C27)
\* has to tell apart
board_stocks_key_sz00(stock) ==
    IF StartsWith(stock, <<"s", "h", ".", "6", "8", "8">>) THEN "STAR"
    ELSE IF \/ StartsWith(stock, <<"s", "h", ".", "6", "0", "0">>)
            \/ StartsWith(stock, <<"s", "h", ".", "6", "0", "1">>)
            \/ StartsWith(stock, <<"s", "h", ".", "6", "0", "3">>) THEN "MainBoard"
    ELSE IF StartsWith(stock, <<"s", "z", ".", "0", "0">>) THEN "MainBoard"
    ELSE IF StartsWith(stock, <<"s", "z", ".", "3", "0", "0">>) THEN "GEM"
    ELSE "none"

\* the if/elif chain of filter_stocks_by_board (lines 350-358): the key of
\* board_stocks whose list `stock` is appended to, "none" when no branch
\* matches
board_stocks_key(stock) ==
    IF StartsWith(stock, <<"s", "h", ".", "6", "8", "8">>) THEN "STAR"
    ELSE IF \/ StartsWith(stock, <<"s", "h", ".", "6", "0", "0">>)
            \/ StartsWith(stock, <<"s", "h", ".", "6", "0", "1">>)
            \/ StartsWith(stock, <<"s", "h", ".", "6", "0", "3">>) THEN "MainBoard"
    ELSE IF StartsWith(stock, <<"s", "z", ".", "0", "0", "0">>) THEN "MainBoard"
    ELSE IF StartsWith(stock, <<"s", "z", ".", "3", "0", "0">>) THEN "GEM"
    ELSE "none"

\* filter_stocks_by_board (src/aqu142.py 337-364): the bucket of `board`
RECURSIVE filter_stocks_by_board(_, _, _, _)
filter_stocks_by_board(stock_list, board, i, bucket) ==
    IF i > Len(stock_list) THEN bucket
    ELSE filter_stocks_by_board(stock_list, board, i + 1,
             IF board_stocks_key(stock_list[i]) = board
             THEN Append(bucket, stock_list[i]) ELSE bucket)

\* the iteration order of board_stocks.items() (line 347)
BoardOrder == <<"MainBoard", "GEM", "STAR">>

(***************************************************************************)
(* The batch loops of collect_board_data (843-865), collect_all_data       *)
(* (906-933) and collect_custom_stocks_data (961-988): per stock, resolve, *)
(* reconcile, label (not in collect_board_data), append; on an exception   *)
(* the fallback record is reconciled and appended instead.                 *)
(***************************************************************************)
Label(rec, stock, labelled) ==
    IF labelled THEN Put(rec, "board", Str(<<_get_stock_board(stock)>>)) ELSE rec

\* the loop body with an except branch that resolves the stock once more
\* when every source was exhausted: the variant that the single attempt per
\* entity (C16) has to tell apart
LoopBody_Retry(acc, stock, r, labelled) ==
    LET Entity(calc_raised) ==
            [stock |-> stock, from |-> r.from, tried |-> r.tried,
             adapter_raised |-> r.adapter_raised, remote_raised |-> r.remote_raised,
             ret |-> r.ret, calc_raised |-> calc_raised]
        Attempts(e) == IF r.from = "none" THEN <<e, e>> ELSE <<e>>
        Fallback(fb) ==
            [st        |-> r.st,
             ents      |-> acc.ents \o Attempts(Entity(TRUE)),
             raised    |-> fb.raised,
             data_list |-> IF fb.raised THEN acc.data_list
                           ELSE Append(acc.data_list, Label(fb.rec, stock, labelled))]
        Body(calc) ==
            IF calc.raised
            THEN Fallback(calculate_comprehensive_indicators(Placeholder(stock)))
            ELSE [st        |-> r.st,
                  ents      |-> acc.ents \o Attempts(Entity(FALSE)),
                  raised    |-> FALSE,
                  data_list |-> Append(acc.data_list, Label(calc.rec, stock, labelled))]
    IN  Body(calculate_comprehensive_indicators(r.ret))

\* one pass of the loop body on the resolver outcome r
LoopBody(acc, stock, r, labelled) ==
    LET Entity(calc_raised) ==
            [stock |-> stock, from |-> r.from, tried |-> r.tried,
             adapter_raised |-> r.adapter_raised, remote_raised |-> r.remote_raised,
             ret |-> r.ret, calc_raised |-> calc_raised]
        \* the except branch (lines 859-865, 927-933, 982-988)
        Fallback(fb) ==
            [st        |-> r.st,
             ents      |-> Append(acc.ents, Entity(TRUE)),
             raised    |-> fb.raised,
             data_list |-> IF fb.raised THEN acc.data_list
                           ELSE Append(acc.data_list, Label(fb.rec, stock, labelled))]
        Body(calc) ==
            IF calc.raised
            THEN Fallback(calculate_comprehensive_indicators(Placeholder(stock)))
            ELSE [st        |-> r.st,
                  ents      |-> Append(acc.ents, Entity(FALSE)),
                  raised    |-> FALSE,
                  data_list |-> Append(acc.data_list, Label(calc.rec, stock, labelled))]
    IN  Body(calculate_comprehensive_indicators(r.ret))

RECURSIVE BatchLoop(_, _, _, _, _, _)
BatchLoop(stocks, i, lgv, acc, U, labelled) ==
    IF i > Len(stocks) \/ acc.raised THEN {acc}
    ELSE UNION { BatchLoop(stocks, i + 1, lgv, a, U, labelled)
                 : a \in { LoopBody(acc, stocks[i], r, labelled)
                           : r \in get_stock_indicator_data(stocks[i], 0, lgv, acc.st,
                                                            NoObs, U) } }

BatchStart(st) == [st |-> st, ents |-> <<>>, raised |-> FALSE, data_list |-> <<>>]

\* login (src/aqu142.py 44-61) on the reply r of bs.login(): "ok", "err"
\* (an error code) or "raise"
login(st, lgv, r) ==
    IF st.ds = "baostock"
    THEN IF r = "raise" THEN [lg |-> lgv, ok |-> FALSE]
         ELSE [lg |-> r, ok |-> r = "ok"]
    ELSE [lg |-> lgv, ok |-> TRUE]

\* logout (src/aqu142.py 71-77): whether it calls bs.logout()
logout(st, lgv) == lgv # "none" /\ st.ds = "baostock"

\* lines 814-817, 886-889, 953-956
EnsureLogin(st, lgv, r) ==
    IF lgv # "ok" THEN login(st, lgv, r) ELSE [lg |-> lgv, ok |-> TRUE]

\* an optional maximum: None or an int
None == [some |-> FALSE, v |-> 0]
Some(m) == [some |-> TRUE, v |-> m]

\* `if max: stocks = stocks[:max]` (lines 837-838, 900-901), max >= 0
Truncate(stocks, max) ==
    IF max.some /\ max.v # 0
    THEN SubSeq(stocks, 1, IF max.v < Len(stocks) THEN max.v ELSE Len(stocks))
    ELSE stocks

(***************************************************************************)
(* Bounded inputs of the collector.                                        *)
(***************************************************************************)
MaxCodes == 2

CodeGEM   == Code(<<"s", "z">>, <<"3", "0", "0", "0", "0", "1">>)
CodeOther == Code(<<"s", "z">>, <<"2", "0", "0", "0", "0", "1">>)

Codes == {SampleCode, CodeGEM, CodeOther}

CodeLists(n) == UNION { [1..k -> Codes] : k \in 0..n }

\* the lists among them that name no code twice
Listings(n) == { l \in CodeLists(n) : \A i, j \in 1..Len(l) : l[i] = l[j] => i = j }

NameCell == <<"N">>
DateCell == <<"2", "0", "2", "4", "-", "1", "0", "-", "3", "1">>
CodeCell == <<"c">>

KRow(close, pe, pb, ps, pcf) == <<DateCell, CodeCell, close, pe, pb, ps, pcf>>

BasicReplies ==
    {RaiseReply, NoneReply, RowReply(<<CodeCell, NameCell>>), RowReply(<<CodeCell>>)}

KReplies ==
    {RaiseReply, NoneReply,
     RowReply(KRow(<<"1", "0">>, <<"5">>, <<"2">>, <<"4">>, <<"8">>)),
     RowReply(KRow(<<"1", "0">>, <<>>, <<"0">>, <<"-", "4">>, DateCell))}

ProfitRow  == <<CodeCell, <<"0", ".", "1">>, <<"0", ".", "2">>, <<"0", ".", "3">>,
                <<"0", ".", "4">>, <<"0", ".", "0", "5">>>>
GrowthRow  == <<CodeCell, <<"0", ".", "1", "2">>, <<"-", "0", ".", "2">>>>
BalanceRow == <<CodeCell, <<"1">>, <<"2">>, <<"3">>, <<"0", ".", "6">>>>
CashRow    == <<CodeCell, <<"3">>>>

NoYears    == <<NoneReply, NoneReply, NoneReply>>
Found(row) == <<NoneReply, RowReply(row)>>
Fails      == <<NoneReply, RaiseReply>>

Fin(p, g, b, c) == [profit |-> p, growth |-> g, balance |-> b, cash |-> c]

\* replies of the four financial-statement loops
FinReplies ==
    { Fin(NoYears, NoYears, NoYears, NoYears),
      Fin(Found(ProfitRow), Found(GrowthRow), Found(BalanceRow), Found(CashRow)),
      Fin(<<RowReply(<<CodeCell>>), RowReply(ProfitRow)>>, NoYears, NoYears,
          Found(<<CodeCell, <<"0">>>>)),
      Fin(Fails, NoYears, NoYears, NoYears),
      Fin(Found(ProfitRow), Fails, NoYears, NoYears),
      Fin(Found(ProfitRow), Found(GrowthRow), Fails, NoYears),
      Fin(Found(ProfitRow), Found(GrowthRow), Found(BalanceRow), Fails) }

BaoReply(r1, r2, f) ==
    [basic |-> r1, k |-> r2, profit |-> f.profit, growth |-> f.growth,
     balance |-> f.balance, cash |-> f.cash]

BaoReplies == { BaoReply(r1, r2, f) : r1 \in BasicReplies, r2 \in KReplies, f \in FinReplies }

Absent == [k |-> "absent", n |-> 0, d |-> 1, s |-> <<>>]
Dash   == Str(<<"-">>)

Opt(d, key, v) == IF v = Absent THEN d ELSE Put(d, key, v)

EmData(f58, f43, f164, f169) ==
    [kind |-> "data",
     data |-> Opt(Opt(Opt(Opt(EmptyDict, "f58", f58), "f43", f43), "f164", f164), "f169", f169)]

EmFail(kind) == [kind |-> kind, data |-> EmptyDict]

EmReplies ==
    { EmFail(kd) : kd \in {"raise", "status", "badjson", "nodata"} }
    \cup { EmData(a, b, c, d) : a \in {Absent, Str(NameCell)},
                                b \in {Absent, F(1050, 1), Dash},
                                c \in {Absent, F(5, 1), Dash},
                                d \in {Absent, F(2, 1), Dash} }

Rows(codes) == [i \in 1..Len(codes) |-> <<codes[i], NameCell>>]

ListReply(kind, rows) == [kind |-> kind, rows |-> rows]

BaoListReplies ==
    { [first |-> a, retry |-> b, basic |-> c] :
        a \in {ListReply("raise", <<>>), ListReply("error", <<>>), ListReply("rows", <<<<>>>>),
               ListReply("rows", Rows(<<SampleCode, Code(<<"S", "H">>, SubSeq(SampleCode, 4, 9))>>))}
              \cup { ListReply("rows", Rows(l)) : l \in CodeLists(MaxCodes) },
        b \in {ListReply("raise", <<>>), ListReply("rows", Rows(<<CodeGEM>>))},
        c \in {ListReply("raise", <<>>), ListReply("error", <<>>),
               ListReply("rows", Rows(<<SampleCode>>))} }

Item(code) == [f \in {"f12"} |-> Str(SubSeq(code, 4, Len(code)))]

EmList(kind, diff) == [kind |-> kind, diff |-> diff]

EmListReplies ==
    { EmList(kd, <<>>) : kd \in {"raise", "status", "badjson", "nodata"} }
    \cup { EmList("data", [i \in 1..Len(l) |-> Item(l[i])]) : l \in CodeLists(MaxCodes) }
    \cup { EmList("data", <<EmptyDict, Item(CodeGEM)>>) }

ThsListReplies == { EmList("raise", <<>>), EmList("status", <<>>), EmList("data", <<>>) }

\* the replies drawn for one resolver call
CallReplies ==
    [bao |-> BaoReplies, em |-> EmReplies,
     lbao |-> BaoListReplies, lem |-> EmListReplies, lths |-> ThsListReplies]

\* the replies drawn per stock and per listing inside a collect_* run
RunReplies ==
    [bao  |-> { BaoReply(RaiseReply, NoneReply, Fin(NoYears, NoYears, NoYears, NoYears)),
                BaoReply(RowReply(<<CodeCell, NameCell>>),
                         RowReply(KRow(<<"1", "0">>, <<"5">>, <<"2">>, <<"4">>, <<"8">>)),
                         Fin(Fails, NoYears, NoYears, NoYears)),
                BaoReply(RowReply(<<CodeCell, NameCell>>),
                         RowReply(KRow(<<"1", "0">>, <<"5">>, <<"2">>, <<"4">>, <<"8">>)),
                         Fin(Found(ProfitRow), Found(GrowthRow), Found(BalanceRow),
                             Found(CashRow))) },
     em   |-> { EmFail("raise"),
                EmData(Str(NameCell), F(1050, 1), F(5, 1), F(2, 1)),
                EmData(Str(NameCell), F(1050, 1), Dash, F(2, 1)),
                EmData(Str(NameCell), Dash, Absent, Absent) },
     lbao |-> { [first |-> ListReply("raise", <<>>), retry |-> ListReply("raise", <<>>),
                 basic |-> ListReply("raise", <<>>)] }
              \cup { [first |-> ListReply("rows", Rows(l)), retry |-> ListReply("raise", <<>>),
                      basic |-> ListReply("error", <<>>)] : l \in Listings(MaxCodes) },
     lem  |-> { EmList("raise", <<>>) }
              \cup { EmList("data", [i \in 1..Len(l) |-> Item(l[i])]) : l \in Listings(MaxCodes) },
     lths |-> { EmList("data", <<>>) }]

(***************************************************************************)
(* The collector as a state machine: its methods are called one after the  *)
(* other in any order.  `call` and `run` hold what the operation that just *)
(* returned did, until the caller drops the result (Return).               *)
(***************************************************************************)
NoPrev == [from |-> "none", tried |-> <<>>]

NoCall ==
    [op |-> "none", code |-> <<>>, tried |-> <<>>, from |-> "none",
     ret |-> EmptyDict, list |-> <<>>, adapter_raised |-> {}, remote_raised |-> {},
     lg0 |-> "none", prev |-> NoPrev]

NoRun ==
    [kind |-> "none", raised |-> FALSE, entered |-> FALSE, codes |-> <<>>,
     max |-> None, universe |-> <<>>, segments |-> <<>>,
     list_tried |-> <<>>, warned |-> FALSE]

NoResult == [raised |-> FALSE, rec |-> EmptyDict]

St == [idx |-> current_source_index, ds |-> data_source]

\* no _get_stock_board call has returned
NoBoard == [code |-> <<>>, board |-> "none"]

Idle == call = NoCall /\ run = NoRun /\ classified = NoBoard

ReconcilerIdle ==
    /\ indicator_data = EmptyDict
    /\ calculated_data = NoResult
    /\ recalculated_data = NoResult
    /\ rpc = "idle"

\* no listing call is in progress
NoEnumeration ==
    [who |-> "none", pc |-> "idle", requests |-> <<>>, reply |-> "none", stock_list |-> <<>>]

EnumeratorIdle ==
    /\ listing_source = [total |-> 0, page_size |-> 1]
    /\ enumeration = NoEnumeration

\* self.print_lock = Lock() (src/spider.py 29): held by nobody
FreeLock == -1

\* nothing was written to stdout
NoWrite == [who |-> FreeLock, held |-> FALSE, running |-> FALSE]

\* no crawl_* call was made
NoCrawl ==
    [fn |-> "none", use_parallel |-> FALSE, max_workers |-> 1, pc |-> "idle",
     stock_items |-> <<>>, outcomes |-> <<>>, complete_data |-> <<>>,
     success_count |-> 0, collected |-> {}, i |-> 1, cur |-> 0]

CrawlerIdle ==
    /\ crawl = NoCrawl
    /\ tasks = <<>>
    /\ print_lock = FreeLock
    /\ console = NoWrite

\* main() has not been started
NoSession ==
    [pc |-> "idle", all_stocks |-> <<>>, i |-> 1, data_list |-> <<>>,
     interrupted |-> FALSE, accumulated |-> <<>>, saved |-> <<>>, logged_out |-> FALSE]

\* no record is being merged
NoMerge ==
    [who |-> "none", pc |-> "idle", fetch_info |-> TRUE, fetch_financial |-> TRUE,
     parts |-> <<>>, i |-> 1, merged |-> EmptyDict]

\* no safe_float_convert call was made
NoConversion == [pc |-> "idle", value |-> <<>>, result |-> Zero]

\* __init__ (src/aqu142.py 18-42); data_source is the constructor argument
Init ==
    /\ lg = "none"
    /\ data_source \in {data_sources[i] : i \in 1..Len(data_sources)}
    /\ current_source_index = 0
    /\ call = NoCall
    /\ run = NoRun
    /\ prev_call = NoPrev
    /\ classified = NoBoard
    /\ ReconcilerIdle
    /\ EnumeratorIdle
    /\ CrawlerIdle
    /\ session = NoSession
    /\ merge = NoMerge
    /\ conversion = NoConversion

LoginReplies == {"ok", "err", "raise"}

\* collector.login()
Login ==
    /\ Idle
    /\ \E r \in LoginReplies : lg' = login(St, lg, r).lg
    /\ UNCHANGED <<data_source, current_source_index, call, run, prev_call, classified>>
    /\ UNCHANGED <<reconcilerVars, enumeratorVars, crawlerVars, session, merge, conversion>>

\* the caller is done with the result of the last operation
Return ==
    /\ ~Idle
    /\ call' = NoCall
    /\ run' = NoRun
    /\ classified' = NoBoard
    /\ UNCHANGED <<lg, data_source, current_source_index, prev_call>>
    /\ UNCHANGED <<reconcilerVars, enumeratorVars, crawlerVars, session, merge, conversion>>

\* collector.get_all_stocks()
GetAllStocks ==
    /\ Idle
    /\ \E r \in get_all_stocks(0, lg, St, NoObs, CallReplies) :
        /\ call' = [NoCall EXCEPT !.op = "get_all_stocks", !.tried = r.tried,
                        !.from = r.from, !.list = r.list,
                        !.adapter_raised = r.adapter_raised, !.lg0 = lg,
                        !.prev = prev_call]
        /\ prev_call' = [from |-> r.from, tried |-> r.tried]
        /\ current_source_index' = r.st.idx
        /\ data_source' = r.st.ds
    /\ UNCHANGED <<lg, run, classified>>
    /\ UNCHANGED <<reconcilerVars, enumeratorVars, crawlerVars, session, merge, conversion>>

\* collector.get_stock_indicator_data(stock_code, date)
GetStockIndicatorData ==
    /\ Idle
    /\ \E stock_code \in Codes :
         \E r \in get_stock_indicator_data(stock_code, 0, lg, St, NoObs, CallReplies) :
           /\ call' = [NoCall EXCEPT !.op = "get_stock_indicator_data",
                           !.code = stock_code, !.tried = r.tried, !.from = r.from,
                           !.ret = r.ret, !.adapter_raised = r.adapter_raised,
                           !.remote_raised = r.remote_raised, !.lg0 = lg,
                           !.prev = prev_call]
           /\ prev_call' = [from |-> r.from, tried |-> r.tried]
           /\ current_source_index' = r.st.idx
           /\ data_source' = r.st.ds
    /\ UNCHANGED <<lg, run, classified>>
    /\ UNCHANGED <<reconcilerVars, enumeratorVars, crawlerVars, session, merge, conversion>>

\* the test with the guard left out: the variant that the empty-universe
\* report (C15) has to tell apart
UniverseEmpty_Unchecked(all_stocks) == FALSE

\* `if len(all_stocks) == 0` (lines 821 and 893)
UniverseEmpty(all_stocks) == Len(all_stocks) = 0

Segment(board, stocks, b) ==
    [board |-> board, stocks |-> stocks, data_list |-> b.data_list, ents |-> b.ents]

\* the outcomes of the login check of a collect_* run (lines 814-817)
Logins == { EnsureLogin(St, lg, lr) : lr \in LoginReplies }

\* collector.collect_custom_stocks_data(stock_list) (src/aqu142.py 939-992)
CollectCustomStocksData ==
    /\ Idle
    /\ \E stock_list \in CodeLists(MaxCodes), l \in Logins :
          /\ lg' = l.lg
          /\ IF ~l.ok
             THEN /\ run' = [NoRun EXCEPT !.kind = "custom", !.raised = TRUE,
                                          !.codes = stock_list]
                  /\ UNCHANGED <<data_source, current_source_index>>
             ELSE \E b \in BatchLoop(stock_list, 1, l.lg, BatchStart(St), RunReplies, TRUE) :
                    /\ run' = [NoRun EXCEPT !.kind = "custom", !.raised = b.raised,
                                   !.entered = TRUE, !.codes = stock_list,
                                   !.segments = <<Segment("all", stock_list, b)>>]
                    /\ current_source_index' = b.st.idx
                    /\ data_source' = b.st.ds
    /\ prev_call' = NoPrev
    /\ UNCHANGED <<call, classified>>
    /\ UNCHANGED <<reconcilerVars, enumeratorVars, crawlerVars, session, merge, conversion>>

MaxValues == {None} \cup { Some(m) : m \in 0..MaxCodes }

\* collector.collect_all_data(max_total_stocks=max) (src/aqu142.py 872-937)
CollectAllData ==
    /\ Idle
    /\ \E max \in MaxValues, l \in Logins :
          /\ lg' = l.lg
          /\ IF ~l.ok
             THEN /\ run' = [NoRun EXCEPT !.kind = "all", !.raised = TRUE, !.max = max]
                  /\ UNCHANGED <<data_source, current_source_index>>
             ELSE \E u \in get_all_stocks(0, l.lg, St, NoObs, RunReplies) :
                    IF UniverseEmpty(u.list)
                    THEN /\ run' = [NoRun EXCEPT !.kind = "all", !.max = max,
                                        !.list_tried = u.tried, !.warned = TRUE]
                         /\ current_source_index' = u.st.idx
                         /\ data_source' = u.st.ds
                    ELSE LET all_stocks == Truncate(u.list, max)
                         IN  \E b \in BatchLoop(all_stocks, 1, l.lg, BatchStart(u.st),
                                                RunReplies, TRUE) :
                               /\ run' = [NoRun EXCEPT !.kind = "all", !.raised = b.raised,
                                              !.entered = TRUE, !.max = max,
                                              !.codes = all_stocks, !.universe = u.list,
                                              !.list_tried = u.tried,
                                              !.segments = <<Segment("all", all_stocks, b)>>]
                               /\ current_source_index' = b.st.idx
                               /\ data_source' = b.st.ds
    /\ prev_call' = NoPrev
    /\ UNCHANGED <<call, classified>>
    /\ UNCHANGED <<reconcilerVars, enumeratorVars, crawlerVars, session, merge, conversion>>

\* the loop over board_stocks.items() of collect_board_data (lines 832-868)
RECURSIVE BoardLoop(_, _, _, _, _)
BoardLoop(all_stocks, bi, lgv, acc, max) ==
    IF bi > Len(BoardOrder) \/ acc.raised THEN {acc}
    ELSE LET bucket == filter_stocks_by_board(all_stocks, BoardOrder[bi], 1, <<>>)
             stocks == Truncate(bucket, max)
         IN  IF Len(bucket) = 0 THEN BoardLoop(all_stocks, bi + 1, lgv, acc, max)
             ELSE UNION { BoardLoop(all_stocks, bi + 1, lgv,
                              [st |-> b.st, raised |-> b.raised,
                               segments |-> Append(acc.segments,
                                                   Segment(BoardOrder[bi], stocks, b))],
                              max)
                          : b \in BatchLoop(stocks, 1, lgv, BatchStart(acc.st),
                                            RunReplies, FALSE) }

\* collector.collect_board_data(max_stocks_per_board=max) (src/aqu142.py 800-870)
CollectBoardData ==
    /\ Idle
    /\ \E max \in MaxValues, l \in Logins :
          /\ lg' = l.lg
          /\ IF ~l.ok
             THEN /\ run' = [NoRun EXCEPT !.kind = "board", !.raised = TRUE, !.max = max]
                  /\ UNCHANGED <<data_source, current_source_index>>
             ELSE \E u \in get_all_stocks(0, l.lg, St, NoObs, RunReplies) :
                    IF UniverseEmpty(u.list)
                    THEN /\ run' = [NoRun EXCEPT !.kind = "board", !.max = max,
                                        !.list_tried = u.tried, !.warned = TRUE]
                         /\ current_source_index' = u.st.idx
                         /\ data_source' = u.st.ds
                    ELSE \E b \in BoardLoop(u.list, 1, l.lg,
                                     [st |-> u.st, raised |-> FALSE, segments |-> <<>>], max) :
                           /\ run' = [NoRun EXCEPT !.kind = "board", !.raised = b.raised,
                                          !.entered = TRUE, !.max = max,
                                          !.universe = u.list, !.segments = b.segments,
                                          !.list_tried = u.tried]
                           /\ current_source_index' = b.st.idx
                           /\ data_source' = b.st.ds
    /\ prev_call' = NoPrev
    /\ UNCHANGED <<call, classified>>
    /\ UNCHANGED <<reconcilerVars, enumeratorVars, crawlerVars, session, merge, conversion>>

\* the code strings handed to the classifier: the board prefixes, their
\* near misses, and strings that are no code at all
BoardCodes ==
    { Code(<<"s", "h">>, <<"6", "8", "8", "0", "0", "1">>),
      Code(<<"s", "h">>, <<"6", "0", "0", "0", "0", "1">>),
      Code(<<"s", "h">>, <<"6", "0", "1", "0", "0", "1">>),
      Code(<<"s", "h">>, <<"6", "0", "3", "0", "0", "1">>),
      Code(<<"s", "h">>, <<"6", "0", "5", "0", "0", "1">>),
      Code(<<"s", "h">>, <<"9", "0", "0", "0", "0", "1">>),
      Code(<<"s", "z">>, <<"0", "0", "0", "0", "0", "1">>),
      Code(<<"s", "z">>, <<"0", "0", "2", "0", "0", "1">>),
      Code(<<"s", "z">>, <<"3", "0", "0", "0", "0", "1">>),
      Code(<<"s", "z">>, <<"3", "0", "1", "0", "0", "1">>),
      Code(<<"s", "z">>, <<"2", "0", "0", "0", "0", "1">>),
      Code(<<"S", "H">>, <<"6", "8", "8", "0", "0", "1">>),
      Code(<<"s", "h">>, <<"6", "8">>),
      <<"6", "8", "8", "0", "0", "1">>,
      <<>> }

\* collector._get_stock_board(stock_code)
GetStockBoard ==
    /\ Idle
    /\ \E stock_code \in BoardCodes :
          classified' = [code |-> stock_code, board |-> _get_stock_board(stock_code)]
    /\ UNCHANGED <<lg, data_source, current_source_index, call, run, prev_call>>
    /\ UNCHANGED <<reconcilerVars, enumeratorVars, crawlerVars, session, merge, conversion>>

Next ==
    \/ Login
    \/ GetStockBoard
    \/ Return
    \/ GetAllStocks
    \/ GetStockIndicatorData
    \/ CollectCustomStocksData
    \/ CollectAllData
    \/ CollectBoardData

Spec == Init /\ [][Next]_vars

(***************************************************************************)
(* The reconciler applied to bounded partial records.                      *)
(***************************************************************************)
InitCollectorIdle ==
    /\ lg = "none"
    /\ data_source = "baostock"
    /\ current_source_index = 0
    /\ call = NoCall
    /\ run = NoRun
    /\ prev_call = NoPrev
    /\ classified = NoBoard

InitReconcile ==
    /\ InitCollectorIdle
    /\ \E idx \in KeyChoices(MaxFields) :
          \E pick \in Picks(KeySet(idx)) :
             indicator_data = PartialRecord(KeySet(idx), pick)
    /\ calculated_data = NoResult
    /\ recalculated_data = NoResult
    /\ rpc = "start"
    /\ EnumeratorIdle
    /\ CrawlerIdle
    /\ session = NoSession
    /\ merge = NoMerge
    /\ conversion = NoConversion

\* calculated = calculate_comprehensive_indicators(indicator_data)
Calculate ==
    /\ rpc = "start"
    /\ calculated_data' = calculate_comprehensive_indicators(indicator_data)
    /\ indicator_data' = ArgumentAfter(indicator_data)
    /\ rpc' = "once"
    /\ UNCHANGED recalculated_data
    /\ UNCHANGED <<collectorVars, enumeratorVars, crawlerVars, session, merge, conversion>>

\* recalculated = calculate_comprehensive_indicators(calculated)
Recalculate ==
    /\ rpc = "once"
    /\ ~calculated_data.raised
    /\ recalculated_data' = calculate_comprehensive_indicators(calculated_data.rec)
    /\ calculated_data' = [calculated_data EXCEPT !.rec = ArgumentAfter(calculated_data.rec)]
    /\ rpc' = "twice"
    /\ UNCHANGED indicator_data
    /\ UNCHANGED <<collectorVars, enumeratorVars, crawlerVars, session, merge, conversion>>

NextReconcile == Calculate \/ Recalculate

SpecReconcile == InitReconcile /\ [][NextReconcile]_vars

(***************************************************************************)
(* The listing calls against a paginated endpoint.  The endpoint holds     *)
(* `total` items and hands out at most `page_size` of them per request: a  *)
(* request for page pn of pz items is answered with the items of page pn   *)
(* of Min(pz, page_size) items.  get_all_stocks_eastmoney (src/aqu142.py   *)
(* 132-176) and SSEDataCrawler.get_stock_list (src/沪主板AB.py 25-71) each   *)
(* send one request and return what its answer holds.                      *)
(***************************************************************************)
MaxTotal == 250

MockPageSize == 100

Min(a, b) == IF a < b THEN a ELSE b

\* ceil(total / page_size)
PageCount(total, page_size) == (total + page_size - 1) \div page_size

ListingSources ==
    { [total |-> t, page_size |-> p] : t \in 0..MaxTotal, p \in {1, MockPageSize, 5000} }

\* the numbers of the items on page pn of the endpoint src asked for pz items
PageItems(src, pn, pz) ==
    LET Page(eff) ==
            LET Range(first, last) ==
                    IF last < first THEN <<>> ELSE [i \in 1..(last - first + 1) |-> first + i - 1]
            IN  Range((pn - 1) * eff + 1, Min(src.total, pn * eff))
    IN  Page(Min(pz, src.page_size))

\* the six-character code of item k
ItemBody(lead, k) ==
    <<lead, "0", DigitChars[((k \div 1000) % 10) + 1], DigitChars[((k \div 100) % 10) + 1],
      DigitChars[((k \div 10) % 10) + 1], DigitChars[(k % 10) + 1]>>

\* the request of get_all_stocks_eastmoney: 'pn': 1, 'pz': 5000
EastmoneyListParams == [pn |-> 1, pz |-> 5000]

\* the request of get_stock_list: 'pageHelp.pageNo': '1', 'pageHelp.pageSize': '2000'
SseListParams == [pn |-> 1, pz |-> 2000]

ListReplyKinds == {"raise", "status", "badjson", "nodata", "data"}

\* the reply of the endpoint to the eastmoney request rq
EastmoneyPage(kind, rq) ==
    IF kind = "data"
    THEN LET Diff(items) ==
                 [i \in 1..Len(items) |-> [f \in {"f12"} |-> Str(ItemBody("6", items[i]))]]
         IN  EmList("data", Diff(PageItems(listing_source, rq.pn, rq.pz)))
    ELSE EmList(kind, <<>>)

\* SSEDataCrawler.get_stock_list (src/沪主板AB.py 25-71) on the reply
\* [kind, result]: data['result'] when the reply parses and holds it, else []
get_stock_list(e) == IF e.kind = "data" THEN e.result ELSE <<>>

\* the reply of the endpoint to the SSE request rq
SsePage(kind, rq) ==
    IF kind = "data"
    THEN LET Result(items) ==
                 [i \in 1..Len(items) |->
                     [f \in {"COMPANY_CODE"} |-> Str(ItemBody("6", items[i]))]]
         IN  [kind |-> "data", result |-> Result(PageItems(listing_source, rq.pn, rq.pz))]
    ELSE [kind |-> kind, result |-> <<>>]

InitEnumerate ==
    /\ InitCollectorIdle
    /\ ReconcilerIdle
    /\ CrawlerIdle
    /\ session = NoSession
    /\ merge = NoMerge
    /\ conversion = NoConversion
    /\ listing_source \in ListingSources
    /\ enumeration \in { [NoEnumeration EXCEPT !.who = w, !.pc = "start"]
                          : w \in {"eastmoney", "sse"} }

\* get_all_stocks_eastmoney up to self.session.get (lines 139-158)
EastmoneyListRequest ==
    /\ enumeration.who = "eastmoney"
    /\ enumeration.pc = "start"
    /\ enumeration' = [enumeration EXCEPT
            !.requests = Append(enumeration.requests, EastmoneyListParams),
            !.pc = "wait"]
    /\ UNCHANGED <<listing_source, collectorVars, reconcilerVars, crawlerVars, session, merge, conversion>>

\* get_all_stocks_eastmoney from the response to its return (lines 159-176)
EastmoneyListReturn ==
    /\ enumeration.who = "eastmoney"
    /\ enumeration.pc = "wait"
    /\ \E kind \in ListReplyKinds :
          enumeration' = [enumeration EXCEPT
              !.reply = kind,
              !.stock_list = get_all_stocks_eastmoney(
                                 EastmoneyPage(kind, enumeration.requests[1])).list,
              !.pc = "done"]
    /\ UNCHANGED <<listing_source, collectorVars, reconcilerVars, crawlerVars, session, merge, conversion>>

\* get_stock_list up to self.session.get (src/沪主板AB.py 34-54)
SseListRequest ==
    /\ enumeration.who = "sse"
    /\ enumeration.pc = "start"
    /\ enumeration' = [enumeration EXCEPT
            !.requests = Append(enumeration.requests, SseListParams),
            !.pc = "wait"]
    /\ UNCHANGED <<listing_source, collectorVars, reconcilerVars, crawlerVars, session, merge, conversion>>

\* get_stock_list from the response to its return (src/沪主板AB.py 55-71)
SseListReturn ==
    /\ enumeration.who = "sse"
    /\ enumeration.pc = "wait"
    /\ \E kind \in ListReplyKinds :
          enumeration' = [enumeration EXCEPT
              !.reply = kind,
              !.stock_list = get_stock_list(SsePage(kind, enumeration.requests[1])),
              !.pc = "done"]
    /\ UNCHANGED <<listing_source, collectorVars, reconcilerVars, crawlerVars, session, merge, conversion>>

NextEnumerate ==
    \/ EastmoneyListRequest
    \/ EastmoneyListReturn
    \/ SseListRequest
    \/ SseListReturn

SpecEnumerate == InitEnumerate /\ [][NextEnumerate]_vars

(***************************************************************************)
(* StockFinancialCrawler.crawl_all_market_data and                         *)
(* crawl_market_data_by_type (src/spider.py 286-413) from the fetched      *)
(* stock list on.  Thread 0 runs the crawl_* method; with use_parallel     *)
(* the call process_single_stock for stock i runs on a pool thread, named  *)
(* i, and at most max_workers of them run at a time; without it thread 0   *)
(* makes the calls itself, one after the other.  Each step below is one    *)
(* atomic section of a thread.  The dict keys '股票代码' and '股票名称' are     *)
(* written "code" and "name".                                              *)
(***************************************************************************)
MaxStocks == 2

MaxWorkers == 2

\* d.update(e)
Update(d, e) ==
    [f \in (DOMAIN d) \cup (DOMAIN e) |-> IF f \in DOMAIN e THEN e[f] ELSE d[f]]

\* the item of row k of the stock list (lines 306-310)
Stock(k) ==
    [f \in {"code", "name"} |-> IF f = "code" THEN Str(ItemBody("6", k)) ELSE Str(NameCell)]

StockItems(n) == [k \in 1..n |-> Stock(k)]

\* what the fetches of one process_single_stock call do: "data" (they
\* return fields), "empty" (they swallow their errors and return {}) or
\* "raise" (an exception escapes process_single_stock)
TaskOutcomes == {"data", "empty", "raise"}

FetchedInfo == [f \in {"price"} |-> F(10, 1)]

\* process_single_stock (lines 254-284) after its progress line
process_single_stock(stock, outcome) ==
    IF outcome = "raise" THEN [raised |-> TRUE, rec |-> EmptyDict]
    ELSE [raised |-> FALSE,
          rec    |-> Update(stock, IF outcome = "data" THEN FetchedInfo ELSE EmptyDict)]

\* the thread that runs the call for stock i
Thread(i) == IF crawl.use_parallel THEN i ELSE 0

Running(i) == tasks[i].state \in {"begun", "printing", "fetching"}

\* some pool thread is inside a process_single_stock call
WorkersRunning == crawl.use_parallel /\ \E i \in DOMAIN tasks : Running(i)

\* the threads inside complete_data.append (lines 330, 341, 394, 406)
BufferWriters == IF crawl.pc = "append" THEN {0} ELSE {}

InitCrawl ==
    /\ InitCollectorIdle
    /\ ReconcilerIdle
    /\ EnumeratorIdle
    /\ \E n \in 0..MaxStocks :
          /\ crawl \in { [NoCrawl EXCEPT !.fn = fn, !.use_parallel = par, !.max_workers = w,
                                          !.pc = "start", !.stock_items = StockItems(n),
                                          !.outcomes = o]
                          : fn \in {"all", "by_type"}, par \in BOOLEAN,
                            w \in 0..MaxWorkers, o \in [1..n -> TaskOutcomes] }
          /\ tasks = [k \in 1..n |-> [state |-> "pending", result |-> EmptyDict]]
    /\ crawl.use_parallel \/ crawl.max_workers <= 1
    /\ session = NoSession
    /\ merge = NoMerge
    /\ conversion = NoConversion
    /\ print_lock = FreeLock
    /\ console = NoWrite

\* ThreadPoolExecutor(max_workers=max_workers) (lines 318, 382): the
\* constructor raises ValueError("max_workers must be greater than 0") when
\* max_workers <= 0
ExecutorRaises(cr) == cr.use_parallel /\ cr.max_workers <= 0

\* lines 301-323 and 365-387: the empty list returns []; else the mode line
\* is printed and, with use_parallel, the executor is made and every call is
\* submitted; the ValueError of the executor is caught nowhere in crawl_*,
\* run_* or main
CrawlStart ==
    /\ crawl.pc = "start"
    /\ crawl' = [crawl EXCEPT !.pc = IF crawl.stock_items = <<>> THEN "returned"
                                     ELSE IF ExecutorRaises(crawl) THEN "raised"
                                     ELSE "collect"]
    /\ console' = [who |-> 0, held |-> FALSE, running |-> FALSE]
    /\ UNCHANGED <<tasks, print_lock>>
    /\ UNCHANGED <<collectorVars, reconcilerVars, enumeratorVars, session, merge, conversion>>

\* a pool thread takes call i from the queue; without use_parallel thread 0
\* calls process_single_stock for the stock of its loop index (line 340)
TaskBegin(i) ==
    /\ crawl.pc \in {"collect", "append", "error", "error_printed"}
    /\ tasks[i].state = "pending"
    /\ IF crawl.use_parallel
       THEN Cardinality({ j \in DOMAIN tasks : Running(j) }) < crawl.max_workers
       ELSE crawl.pc = "collect" /\ i = crawl.i
    /\ tasks' = [tasks EXCEPT ![i].state = "begun"]
    /\ UNCHANGED <<crawl, print_lock, console>>
    /\ UNCHANGED <<collectorVars, reconcilerVars, enumeratorVars, session, merge, conversion>>

\* lines 261-262: `with self.print_lock:` entered and the progress line printed
TaskAnnounce(i) ==
    /\ tasks[i].state = "begun"
    /\ print_lock = FreeLock
    /\ print_lock' = Thread(i)
    /\ console' = [who |-> Thread(i), held |-> TRUE, running |-> WorkersRunning]
    /\ tasks' = [tasks EXCEPT ![i].state = "printing"]
    /\ UNCHANGED crawl
    /\ UNCHANGED <<collectorVars, reconcilerVars, enumeratorVars, session, merge, conversion>>

\* the end of the with block of lines 261-262
TaskRelease(i) ==
    /\ tasks[i].state = "printing"
    /\ print_lock' = FreeLock
    /\ tasks' = [tasks EXCEPT ![i].state = "fetching"]
    /\ UNCHANGED <<crawl, console>>
    /\ UNCHANGED <<collectorVars, reconcilerVars, enumeratorVars, session, merge, conversion>>

\* lines 264-284: the fetches, and the return or the escaping exception
TaskReturn(i) ==
    /\ tasks[i].state = "fetching"
    /\ LET Outcome(r) ==
               [state |-> IF r.raised THEN "failed" ELSE "done", result |-> r.rec]
       IN  tasks' = [tasks EXCEPT
               ![i] = Outcome(process_single_stock(crawl.stock_items[i], crawl.outcomes[i]))]
    /\ UNCHANGED <<crawl, print_lock, console>>
    /\ UNCHANGED <<collectorVars, reconcilerVars, enumeratorVars, session, merge, conversion>>

\* `for future in as_completed(...)` hands out a finished call not yet
\* handed out and future.result() returns or raises (lines 326-329, 390-393);
\* without use_parallel the call of line 340 / 405 returns or raises
TakeResult ==
    /\ crawl.pc = "collect"
    /\ \E f \in (DOMAIN tasks) \ crawl.collected :
          /\ tasks[f].state \in {"done", "failed"}
          /\ crawl' = [crawl EXCEPT !.cur = f,
                           !.pc = IF tasks[f].state = "done" THEN "append" ELSE "error"]
    /\ UNCHANGED <<tasks, print_lock, console>>
    /\ UNCHANGED <<collectorVars, reconcilerVars, enumeratorVars, session, merge, conversion>>

\* lines 330-331, 341-342, 394-395, 406-407
AppendResult ==
    /\ crawl.pc = "append"
    /\ crawl' = [crawl EXCEPT
            !.complete_data = Append(crawl.complete_data, tasks[crawl.cur].result),
            !.success_count = crawl.success_count + 1,
            !.collected = crawl.collected \cup {crawl.cur},
            !.i = crawl.i + 1,
            !.pc = "collect"]
    /\ UNCHANGED <<tasks, print_lock, console>>
    /\ UNCHANGED <<collectorVars, reconcilerVars, enumeratorVars, session, merge, conversion>>

\* an except branch that also drops what was collected: the variant that
\* the independence of the stocks (C17) has to tell apart
AfterError_Dropping(cr) ==
    [cr EXCEPT !.complete_data = <<>>,
               !.collected = cr.collected \cup {cr.cur}, !.i = cr.i + 1, !.pc = "collect"]

\* the locals after an except branch (lines 332-334, 343-344, 396-399,
\* 408-410): the loop goes on with the next call
AfterError(cr) ==
    [cr EXCEPT !.collected = cr.collected \cup {cr.cur}, !.i = cr.i + 1, !.pc = "collect"]

\* crawl_all_market_data, lines 332-334 and 343-344: the error line is
\* printed without print_lock
ReportError ==
    /\ crawl.pc = "error"
    /\ crawl.fn = "all"
    /\ console' = [who |-> 0, held |-> FALSE, running |-> WorkersRunning]
    /\ crawl' = AfterError(crawl)
    /\ UNCHANGED <<tasks, print_lock>>
    /\ UNCHANGED <<collectorVars, reconcilerVars, enumeratorVars, session, merge, conversion>>

\* crawl_market_data_by_type, lines 396-399 and 408-410: `with
\* self.print_lock:` entered and the error line printed
ReportErrorLocked ==
    /\ crawl.pc = "error"
    /\ crawl.fn = "by_type"
    /\ print_lock = FreeLock
    /\ print_lock' = 0
    /\ console' = [who |-> 0, held |-> TRUE, running |-> WorkersRunning]
    /\ crawl' = [crawl EXCEPT !.pc = "error_printed"]
    /\ UNCHANGED tasks
    /\ UNCHANGED <<collectorVars, reconcilerVars, enumeratorVars, session, merge, conversion>>

\* the end of that with block
ReleaseError ==
    /\ crawl.pc = "error_printed"
    /\ print_lock' = FreeLock
    /\ crawl' = AfterError(crawl)
    /\ UNCHANGED <<tasks, console>>
    /\ UNCHANGED <<collectorVars, reconcilerVars, enumeratorVars, session, merge, conversion>>

\* every call was handed out: the executor is left, the summary line is
\* printed and complete_data returned (lines 346-347, 412-413)
CrawlReturn ==
    /\ crawl.pc = "collect"
    /\ crawl.collected = DOMAIN tasks
    /\ console' = [who |-> 0, held |-> FALSE, running |-> WorkersRunning]
    /\ crawl' = [crawl EXCEPT !.pc = "returned"]
    /\ UNCHANGED <<tasks, print_lock>>
    /\ UNCHANGED <<collectorVars, reconcilerVars, enumeratorVars, session, merge, conversion>>

NextCrawl ==
    \/ CrawlStart
    \/ \E i \in DOMAIN tasks : TaskBegin(i)
    \/ \E i \in DOMAIN tasks : TaskAnnounce(i)
    \/ \E i \in DOMAIN tasks : TaskRelease(i)
    \/ \E i \in DOMAIN tasks : TaskReturn(i)
    \/ TakeResult
    \/ AppendResult
    \/ ReportError
    \/ ReportErrorLocked
    \/ ReleaseError
    \/ CrawlReturn

SpecCrawl == InitCrawl /\ [][NextCrawl]_vars

(***************************************************************************)
(* main() of src/aqu142.py (1100-1390) on menu choice "2": the collector   *)
(* is logged in, collect_all_data has obtained its list, and each pass of  *)
(* its loop (906-933) is one step.  A KeyboardInterrupt can arrive between *)
(* any two steps of the loop; it is not an Exception, so the `except       *)
(* Exception` of the loop body does not catch it and it unwinds            *)
(* collect_all_data to the handler of main (1379-1380).                    *)
(***************************************************************************)
InitMain ==
    /\ lg = "ok"
    /\ data_source = "baostock"
    /\ current_source_index = 0
    /\ call = NoCall
    /\ run = NoRun
    /\ prev_call = NoPrev
    /\ classified = NoBoard
    /\ ReconcilerIdle
    /\ EnumeratorIdle
    /\ CrawlerIdle
    /\ session = [NoSession EXCEPT !.pc = "menu"]
    /\ merge = NoMerge
    /\ conversion = NoConversion

\* choice "2" up to the loop of collect_all_data (lines 1179-1185, 883-904):
\* get_all_stocks with its failovers; the empty list returns to the menu
\* with nothing to save (lines 893-895, 1204-1205)
MainCollectAll ==
    /\ session.pc = "menu"
    /\ \E u \in get_all_stocks(0, lg, St, NoObs, RunReplies) :
          /\ session' = [session EXCEPT !.all_stocks = u.list,
                             !.pc = IF UniverseEmpty(u.list) THEN "menu_done" ELSE "loop"]
          /\ current_source_index' = u.st.idx
          /\ data_source' = u.st.ds
    /\ UNCHANGED <<lg, call, run, prev_call, classified>>
    /\ UNCHANGED <<reconcilerVars, enumeratorVars, crawlerVars, merge, conversion>>

\* one pass of the loop of collect_all_data (lines 906-933)
MainFetchOne ==
    /\ session.pc = "loop"
    /\ session.i <= Len(session.all_stocks)
    /\ \E r \in get_stock_indicator_data(session.all_stocks[session.i], 0, lg, St,
                                          NoObs, RunReplies) :
          \E a \in { LoopBody([BatchStart(St) EXCEPT !.data_list = session.data_list],
                               session.all_stocks[session.i], r, TRUE) } :
             /\ session' = [session EXCEPT !.data_list = a.data_list, !.i = session.i + 1]
             /\ current_source_index' = a.st.idx
             /\ data_source' = a.st.ds
    /\ UNCHANGED <<lg, call, run, prev_call, classified>>
    /\ UNCHANGED <<reconcilerVars, enumeratorVars, crawlerVars, merge, conversion>>

\* the loop is over: collect_all_data returns the table and main writes it
\* with to_csv (lines 935-937, 1188-1197)
MainSave ==
    /\ session.pc = "loop"
    /\ session.i > Len(session.all_stocks)
    /\ session' = [session EXCEPT !.saved = session.data_list, !.pc = "menu_done"]
    /\ UNCHANGED <<collectorVars, reconcilerVars, enumeratorVars, crawlerVars, merge, conversion>>

\* Ctrl-C while collect_all_data is in its loop: the frame of
\* collect_all_data is unwound and its local data_list is gone; accumulated
\* remembers what it held
KeyboardInterrupt ==
    /\ session.pc = "loop"
    /\ session' = [session EXCEPT !.interrupted = TRUE,
                       !.accumulated = session.data_list, !.data_list = <<>>,
                       !.pc = "interrupted"]
    /\ UNCHANGED <<collectorVars, reconcilerVars, enumeratorVars, crawlerVars, merge, conversion>>

\* `except KeyboardInterrupt:` and `finally:` of main (lines 1379-1389):
\* a message, the logout, the end of the program
MainInterrupted ==
    /\ session.pc = "interrupted"
    /\ session' = [session EXCEPT !.logged_out = logout(St, lg), !.pc = "ended"]
    /\ UNCHANGED <<collectorVars, reconcilerVars, enumeratorVars, crawlerVars, merge, conversion>>

\* choice "0": break, then `finally:` (lines 1141-1143, 1385-1389)
MainExit ==
    /\ session.pc = "menu_done"
    /\ session' = [session EXCEPT !.logged_out = logout(St, lg), !.pc = "ended"]
    /\ UNCHANGED <<collectorVars, reconcilerVars, enumeratorVars, crawlerVars, merge, conversion>>

NextMain ==
    \/ MainCollectAll
    \/ MainFetchOne
    \/ MainSave
    \/ KeyboardInterrupt
    \/ MainInterrupted
    \/ MainExit

SpecMain == InitMain /\ [][NextMain]_vars

(***************************************************************************)
(* Properties of the collector (under Spec).                               *)
(***************************************************************************)
IdentityFields == {"stock_code", "stock_name"}

\* the per-stock observations of one segment of a collect_* run
Entities(seg) == { seg.ents[j] : j \in DOMAIN seg.ents }

\* C1: every resolver call, whatever failed in earlier calls, attempts the
\* adapters in the order baostock, eastmoney, ths starting from the first,
\* and stops at the first adapter whose result it accepts: the sources tried
\* are a non-empty prefix of that order, the accepted source is the last one
\* tried, and a call that accepted nothing tried them all.
C1_FixedOrder ==
    /\ call.op # "none" =>
          /\ Len(call.tried) >= 1
          /\ call.tried = SubSeq(<<"baostock", "eastmoney", "ths">>, 1, Len(call.tried))
          /\ call.from # "none" => call.from = call.tried[Len(call.tried)]
          /\ call.from = "none" => Len(call.tried) = 3
    /\ \A i \in DOMAIN run.segments : \A e \in Entities(run.segments[i]) :
          /\ Len(e.tried) >= 1
          /\ e.tried = SubSeq(<<"baostock", "eastmoney", "ths">>, 1, Len(e.tried))
          /\ e.from # "none" => e.from = e.tried[Len(e.tried)]
          /\ e.from = "none" => Len(e.tried) = 3

\* a call that starts with baostock and accepts it, right after a call in
\* which baostock failed and eastmoney was accepted
C1_Witness ==
    /\ call.op = "get_stock_indicator_data"
    /\ call.prev = [from |-> "eastmoney", tried |-> <<"baostock", "eastmoney">>]
    /\ call.tried = <<"baostock">>
    /\ call.from = "baostock"

\* C2: when baostock failed and eastmoney succeeded in one resolver call,
\* the failed adapter has been rotated to the back, so the next resolver
\* call attempts eastmoney first.
C2_FailedSourceRotated ==
    (/\ call.op # "none"
     /\ call.prev = [from |-> "eastmoney", tried |-> <<"baostock", "eastmoney">>])
        => call.tried[1] = "eastmoney"

\* C3: a record get_stock_indicator_data returns from an adapter holds at
\* least one field other than stock_code and stock_name.
C3_AcceptedRecordHasData ==
    (call.op = "get_stock_indicator_data" /\ call.from # "none")
        => (DOMAIN call.ret) \ IdentityFields # {}

\* C4: an adapter whose remote call raised or timed out during a
\* get_stock_indicator_data call is not the adapter whose result is returned.
C4_RemoteFailureFailsOver ==
    call.op = "get_stock_indicator_data" => call.from \notin call.remote_raised

\* C5: when get_stock_indicator_data returns no usable record (nothing but
\* identity fields), it returns exactly the placeholder and has attempted
\* every adapter; when get_all_stocks returns the empty list it has
\* attempted every adapter.
C5_ExhaustedOnlyAfterAll ==
    /\ (call.op = "get_stock_indicator_data" /\ DOMAIN call.ret \subseteq IdentityFields)
          => /\ call.ret = Placeholder(call.code)
             /\ call.tried = data_sources
    /\ (call.op = "get_all_stocks" /\ call.list = <<>>)
          => call.tried = data_sources

\* C6: a collect_* run does not raise, each of its segments holds one record
\* per code in input order, and the record of an entity whose every adapter
\* raised carries stock_code and stock_name both equal to the code.
C6_OneRecordPerCode ==
    run.kind # "none" =>
       /\ ~run.raised
       /\ \A i \in DOMAIN run.segments :
            LET seg == run.segments[i]
            IN  /\ Len(seg.data_list) = Len(seg.stocks)
                /\ \A j \in DOMAIN seg.stocks :
                     /\ "stock_code" \in DOMAIN seg.data_list[j]
                     /\ seg.data_list[j]["stock_code"] = Str(seg.stocks[j])
                     /\ (seg.ents[j].from = "none"
                         \/ seg.ents[j].from \in seg.ents[j].adapter_raised
                                                   \cup seg.ents[j].remote_raised)
                           => /\ "stock_name" \in DOMAIN seg.data_list[j]
                              /\ seg.data_list[j]["stock_name"] = Str(seg.stocks[j])

\* C8: calculate_comprehensive_indicators returns without raising on every
\* record get_stock_indicator_data returns.
C8_ReconcilerTotalOnResolved ==
    call.op = "get_stock_indicator_data"
        => ~calculate_comprehensive_indicators(call.ret).raised

\* C14: collect_board_data and collect_all_data end without a universe (they
\* raise before the batch loop, or return the empty result) only after every
\* listing source of data_sources has been attempted, a failed baostock
\* login included.
C14_GiveUpAfterAllListings ==
    (run.kind \in {"board", "all"} /\ ~run.entered) => run.list_tried = data_sources

\* C15: when every listing source has been attempted and none listed an
\* entity, collect_board_data and collect_all_data print the warning and
\* return the empty result: no exception, no segment, no per-entity fetch.
C15_EmptyUniverseReported ==
    (/\ run.kind \in {"board", "all"}
     /\ run.list_tried = data_sources
     /\ run.universe = <<>>)
        => /\ run.warned
           /\ ~run.raised
           /\ ~run.entered
           /\ run.segments = <<>>

\* a collect_all_data run in which baostock, eastmoney and ths were asked
\* for the listing and none listed an entity
C15_Witness ==
    /\ run.kind = "all"
    /\ run.list_tried = <<"baostock", "eastmoney", "ths">>
    /\ run.universe = <<>>
    /\ run.warned

\* C16: one get_stock_indicator_data call attempts no adapter twice, and a
\* collect_* run resolves each code of the list it processes exactly once,
\* in order: an entity whose adapters were all exhausted is not resolved
\* again later in the run.
C16_AttemptedOnce ==
    /\ call.op = "get_stock_indicator_data" =>
          \A i, j \in DOMAIN call.tried : call.tried[i] = call.tried[j] => i = j
    /\ \A i \in DOMAIN run.segments :
          LET seg == run.segments[i]
          IN  /\ Len(seg.ents) = Len(seg.stocks)
              /\ \A j \in DOMAIN seg.ents :
                    /\ seg.ents[j].stock = seg.stocks[j]
                    /\ \A a, b \in DOMAIN seg.ents[j].tried :
                          seg.ents[j].tried[a] = seg.ents[j].tried[b] => a = b

\* a run of two codes in which every adapter was exhausted for the first
\* code and the second code was resolved after it
C16_Witness ==
    /\ run.kind # "none"
    /\ \E i \in DOMAIN run.segments :
          /\ Len(run.segments[i].ents) = 2
          /\ run.segments[i].ents[1].from = "none"
          /\ run.segments[i].ents[1].tried = data_sources
          /\ run.segments[i].ents[2].stock # run.segments[i].ents[1].stock

\* C12: _get_stock_board returns for every code string exactly one of
\* MainBoard, GEM, STAR, Other, the sh.688 rule taking precedence over the
\* main-board rules: sh.688001 is STAR, sh.600001 and sz.000001 are
\* MainBoard, sz.300001 is GEM, sz.200001 is Other.
C12_ClassifierTotal ==
    classified # NoBoard =>
       /\ classified.board \in {"MainBoard", "GEM", "STAR", "Other"}
       /\ StartsWith(classified.code, <<"s", "h", ".", "6", "8", "8">>)
             => classified.board = "STAR"
       /\ classified.code = Code(<<"s", "h">>, <<"6", "8", "8", "0", "0", "1">>)
             => classified.board = "STAR"
       /\ classified.code = Code(<<"s", "h">>, <<"6", "0", "0", "0", "0", "1">>)
             => classified.board = "MainBoard"
       /\ classified.code = Code(<<"s", "z">>, <<"0", "0", "0", "0", "0", "1">>)
             => classified.board = "MainBoard"
       /\ classified.code = Code(<<"s", "z">>, <<"3", "0", "0", "0", "0", "1">>)
             => classified.board = "GEM"
       /\ classified.code = Code(<<"s", "z">>, <<"2", "0", "0", "0", "0", "1">>)
             => classified.board = "Other"

\* the classifier was applied to sh.688001, which both the sh.688 rule and a
\* general Shanghai rule would match
C12_Witness ==
    /\ classified.code = Code(<<"s", "h">>, <<"6", "8", "8", "0", "0", "1">>)
    /\ classified.board = "STAR"

(***************************************************************************)
(* Properties of the reconciler (under SpecReconcile).                     *)
(***************************************************************************)
\* C7: for every input partial record the returned record holds every field
\* the formatted output reads, with a non-zero value.
C7_AllFormattedFieldsSet ==
    rpc = "once" =>
       /\ ~calculated_data.raised
       /\ \A f \in FormattedFields :
            /\ f \in DOMAIN calculated_data.rec
            /\ NonZero(calculated_data.rec[f])

\* C9: a field the function writes keeps the non-zero value the input
\* record holds for it.
C9_ObservedValuesKept ==
    rpc = "once" =>
       \A f \in WrittenFields \cap DOMAIN indicator_data :
          NonZero(indicator_data[f]) =>
             /\ ~calculated_data.raised
             /\ f \in DOMAIN calculated_data.rec
             /\ calculated_data.rec[f] = indicator_data[f]

\* C10: applying calculate_comprehensive_indicators to its own output on a
\* numeric partial record returns a record equal to that output.
C10_Idempotent ==
    rpc = "twice" =>
       /\ ~recalculated_data.raised
       /\ recalculated_data.rec = calculated_data.rec

\* applied twice to a record with a non-zero eps_from_cash and no roe, roe
\* and revenue_yoy having been derived
C10_Witness ==
    /\ rpc = "twice"
    /\ "eps_from_cash" \in DOMAIN indicator_data
    /\ NonZero(indicator_data["eps_from_cash"])
    /\ DOMAIN indicator_data \cap {"roe", "revenue_yoy", "eps_growth"} = {}
    /\ "roe" \in DOMAIN recalculated_data.rec
    /\ "revenue_yoy" \in DOMAIN recalculated_data.rec

\* C11: a record that holds nothing but identity fields (no profitability
\* ratio, no margins, no growth data, nothing they could be derived from)
\* reconciles to exactly gross_margin 0.25, net_margin 0.10, revenue_yoy 0.08,
\* net_profit_yoy 0.10, net_income_yoy 0.09, eps_growth 0.09,
\* debt_to_asset_ratio 0.50, goodwill_to_equity_ratio 0.05, pledge_ratio 0.10
\* and dividend_payout_ratio 0.30.
C11_TerminalFallback ==
    (rpc = "once" /\ DOMAIN indicator_data \subseteq IdentityFields) =>
       /\ ~calculated_data.raised
       /\ {"gross_margin", "net_margin", "revenue_yoy", "net_profit_yoy",
           "net_income_yoy", "eps_growth", "debt_to_asset_ratio",
           "goodwill_to_equity_ratio", "pledge_ratio", "dividend_payout_ratio"}
             \subseteq DOMAIN calculated_data.rec
       /\ calculated_data.rec["gross_margin"] = F(25, 100)
       /\ calculated_data.rec["net_margin"] = F(10, 100)
       /\ calculated_data.rec["revenue_yoy"] = F(8, 100)
       /\ calculated_data.rec["net_profit_yoy"] = F(10, 100)
       /\ calculated_data.rec["net_income_yoy"] = F(9, 100)
       /\ calculated_data.rec["eps_growth"] = F(9, 100)
       /\ calculated_data.rec["debt_to_asset_ratio"] = F(50, 100)
       /\ calculated_data.rec["goodwill_to_equity_ratio"] = F(5, 100)
       /\ calculated_data.rec["pledge_ratio"] = F(10, 100)
       /\ calculated_data.rec["dividend_payout_ratio"] = F(30, 100)

C13_ThreePageRequests ==
    enumeration.pc = "done" =>
       /\ (listing_source = [total |-> 250, page_size |-> 100] /\ enumeration.reply = "data")
             => Len(enumeration.requests) = 3
       /\ Len(enumeration.requests)
             <= IF listing_source.total = 0 THEN 1
                ELSE PageCount(listing_source.total, listing_source.page_size)

(***************************************************************************)
(* Properties of the crawler (under SpecCrawl).                            *)
(***************************************************************************)
\* the records of the stocks whose call does not raise, in list order: what
\* the loop without use_parallel appends
SerialData(stock_items, outcomes) ==
    LET Kept(i) == outcomes[i] # "raise"
        Indexes == SelectSeq([i \in 1..Len(stock_items) |-> i], Kept)
    IN  [j \in 1..Len(Indexes) |->
            process_single_stock(stock_items[Indexes[j]], outcomes[Indexes[j]]).rec]

Range(seq) == { seq[j] : j \in DOMAIN seq }

\* C17: for the same stock list and the same per-stock outcomes, a crawl_*
\* call with use_parallel returns, whatever the interleaving of the pool
\* threads, the same set of records as without it, at most one per stock;
\* a call that raised removes the record of its own stock and no other.
C17_ParallelSameRecords ==
    crawl.pc = "returned" =>
       /\ ~crawl.use_parallel =>
             crawl.complete_data = SerialData(crawl.stock_items, crawl.outcomes)
       /\ Range(crawl.complete_data) = Range(SerialData(crawl.stock_items, crawl.outcomes))
       /\ Len(crawl.complete_data) = Cardinality(Range(crawl.complete_data))
       /\ \A i \in DOMAIN crawl.stock_items :
             (\E j \in DOMAIN crawl.complete_data :
                 crawl.complete_data[j]["code"] = crawl.stock_items[i]["code"])
                <=> crawl.outcomes[i] # "raise"

\* a parallel call over two stocks has returned with the record of the
\* second stock collected before the record of the first
C17_Witness ==
    /\ crawl.pc = "returned"
    /\ crawl.use_parallel
    /\ Len(crawl.stock_items) = 2
    /\ crawl.complete_data = <<process_single_stock(Stock(2), "data").rec,
                               process_single_stock(Stock(1), "empty").rec>>

\* C18: no two threads are inside complete_data.append at once, and every
\* line written to stdout while a pool thread is inside
\* process_single_stock was written by a thread holding print_lock.
C18_SinksExclusive ==
    /\ Cardinality(BufferWriters) <= 1
    /\ console.running => console.held

(***************************************************************************)
(* Properties of main (under SpecMain).                                    *)
(***************************************************************************)
\* C19: when a collection run was interrupted by the user after k entities
\* had been fetched and reconciled, the program has handed those k records
\* to the persistence sink by the time it ends.
C19_PartialResultsFlushed ==
    (session.pc = "ended" /\ session.interrupted)
        => session.saved = session.accumulated

(***************************************************************************)
(* Further properties of the reconciler (under SpecReconcile).             *)
(***************************************************************************)
\* the per-share fields derived from the price, each with the ratio that
\* divides it (lines 659-672)
PriceDerived ==
    { <<"eps", "pe_ttm">>, <<"bps", "pb_ratio">>, <<"total_revenue", "ps_ttm">> }

\* C21: for every input record in which eps (bps, total_revenue) is zero or
\* absent while close_price and pe_ttm (pb_ratio, ps_ttm) are non-zero, the
\* returned record holds eps = close_price / pe_ttm (bps = close_price /
\* pb_ratio, total_revenue = close_price / ps_ttm), whatever other fields,
\* eps_from_cash included, the input holds.
C21_PerShareFromPrice ==
    rpc = "once" =>
       \A t \in PriceDerived :
          (/\ IsZero(Get(indicator_data, t[1]))
           /\ NonZero(Get(indicator_data, "close_price"))
           /\ NonZero(Get(indicator_data, t[2])))
             => /\ ~calculated_data.raised
                /\ t[1] \in DOMAIN calculated_data.rec
                /\ calculated_data.rec[t[1]]
                      = FDiv(indicator_data["close_price"], indicator_data[t[2]])

\* the field f was derived by the call: the input holds no non-zero value for
\* it and the returned record holds one
Derived(f) ==
    /\ IsZero(Get(indicator_data, f))
    /\ NonZero(Get(calculated_data.rec, f))

\* C22: the returned record is self-consistent: a derived roe equals the
\* returned eps / the returned bps, a derived net_profit_yoy the returned
\* revenue_yoy x 1.1, a derived net_income_yoy the returned net_profit_yoy x
\* 0.95, a derived eps_growth the returned revenue_yoy x 1.05, a derived
\* dividend_yield max(returned roe x 0.3, 0.01), and a derived
\* dividend_payout_ratio the returned dividend_yield / the returned roe when
\* roe is non-zero and 0.30 otherwise.
C22_SelfConsistent ==
    (rpc = "once" /\ ~calculated_data.raised) =>
       LET out(f) == Get(calculated_data.rec, f)
       IN  /\ Derived("roe") =>
                 /\ NonZero(out("bps"))
                 /\ out("roe") = FDiv(out("eps"), out("bps"))
           /\ Derived("net_profit_yoy") =>
                 out("net_profit_yoy") = FMul(out("revenue_yoy"), F(11, 10))
           /\ Derived("net_income_yoy") =>
                 out("net_income_yoy") = FMul(out("net_profit_yoy"), F(95, 100))
           /\ Derived("eps_growth") =>
                 out("eps_growth") = FMul(out("revenue_yoy"), F(105, 100))
           /\ Derived("dividend_yield") =>
                 out("dividend_yield") = FMax(FMul(out("roe"), F(3, 10)), F(1, 100))
           /\ Derived("dividend_payout_ratio") =>
                 out("dividend_payout_ratio")
                    = IF NonZero(out("roe")) THEN FDiv(out("dividend_yield"), out("roe"))
                      ELSE F(30, 100)

(***************************************************************************)
(* The merge of the fetch results of one entity into its record:           *)
(* process_single_stock (src/spider.py 254-284) merges the list item, the  *)
(* stock info, the financial summary and the detailed financials;          *)
(* _crawl_stock_data (src/沪主板AB.py 194-216) merges the list row, the      *)
(* detailed info and the market data.  merge.parts holds the results in    *)
(* that order, each a dict; a fetch that failed returned {} (or None,      *)
(* which the `if detailed_info:` tests skip like {}).  Each dict.update is *)
(* one step.  The keys of the spider results are fixed by the field lists  *)
(* of the fetch functions (lines 111-112, 125-126, 133-141, 163-167,       *)
(* 183-186, 201-203, 225-241), written here "latest_price", "eps" and      *)
(* "total_assets"; the keys of the SSE results are those of the server's   *)
(* answer.                                                                 *)
(***************************************************************************)
MergeValues == {Str(<<"A">>), Str(<<"B">>)}

\* the dicts over subsets of `keys`
Dicts(keys) == UNION { [S -> MergeValues] : S \in SUBSET keys }

\* the list row of _crawl_stock_data: it holds a stock code (line 198)
SseRows ==
    { Update([f \in {"A_STOCK_CODE"} |-> Str(ItemBody("6", 1))], d)
        : d \in Dicts({"COMPANY_ABBR"}) }

\* the arguments and fetch results of one process_single_stock call
SpiderMerges ==
    { [NoMerge EXCEPT !.who = "process_single_stock", !.pc = "start",
                      !.fetch_info = fi, !.fetch_financial = ff,
                      !.parts = <<Stock(1), stock_info, financial_summary, detailed_financial>>]
        : fi \in BOOLEAN, ff \in BOOLEAN,
          stock_info \in Dicts({"latest_price"}),
          financial_summary \in Dicts({"eps"}),
          detailed_financial \in Dicts({"total_assets"}) }

\* the list row and fetch results of one pass of the loop of _crawl_stock_data
SseMerges ==
    { [NoMerge EXCEPT !.who = "_crawl_stock_data", !.pc = "start",
                      !.parts = <<stock, detailed_info, market_data>>]
        : stock \in SseRows,
          detailed_info \in Dicts({"COMPANY_ABBR", "FULL_NAME"}),
          market_data \in Dicts({"FULL_NAME", "CLOSE_PRICE"}) }

InitMerge ==
    /\ InitCollectorIdle
    /\ ReconcilerIdle
    /\ EnumeratorIdle
    /\ CrawlerIdle
    /\ session = NoSession
    /\ conversion = NoConversion
    /\ merge \in SpiderMerges \cup SseMerges

\* whether part i is merged at all: `if fetch_info:` (spider.py 267),
\* `if fetch_financial:` (272); `if detailed_info:`, `if market_data:`
\* (沪主板AB.py 210, 212)
Applied(m, i) ==
    IF m.who = "process_single_stock"
    THEN (i = 2 => m.fetch_info) /\ (i \in {3, 4} => m.fetch_financial)
    ELSE i = 1 \/ DOMAIN m.parts[i] # {}

\* complete_stock = stock.copy() (spider.py 265); merged_data = {} and
\* merged_data.update(stock) (沪主板AB.py 208-209)
MergeSeed ==
    /\ merge.pc = "start"
    /\ merge' = [merge EXCEPT !.merged = Update(EmptyDict, merge.parts[1]),
                              !.i = 2, !.pc = "merge"]
    /\ UNCHANGED <<collectorVars, reconcilerVars, enumeratorVars, crawlerVars, session,
                   conversion>>

\* the next complete_stock.update(...) (spider.py 270, 275, 279) or
\* merged_data.update(...) (沪主板AB.py 211, 213)
MergeUpdate ==
    /\ merge.pc = "merge"
    /\ merge.i <= Len(merge.parts)
    /\ merge' = [merge EXCEPT
            !.merged = IF Applied(merge, merge.i)
                       THEN Update(merge.merged, merge.parts[merge.i]) ELSE merge.merged,
            !.i = merge.i + 1]
    /\ UNCHANGED <<collectorVars, reconcilerVars, enumeratorVars, crawlerVars, session,
                   conversion>>

\* merged_data['MARKET_TYPE'] = market_type (沪主板AB.py 216)
MergeTag ==
    /\ merge.who = "_crawl_stock_data"
    /\ merge.pc = "merge"
    /\ merge.i > Len(merge.parts)
    /\ merge' = [merge EXCEPT !.merged = Put(merge.merged, "MARKET_TYPE", Str(<<"M">>)),
                              !.pc = "done"]
    /\ UNCHANGED <<collectorVars, reconcilerVars, enumeratorVars, crawlerVars, session,
                   conversion>>

\* return complete_stock (spider.py 284)
MergeReturn ==
    /\ merge.who = "process_single_stock"
    /\ merge.pc = "merge"
    /\ merge.i > Len(merge.parts)
    /\ merge' = [merge EXCEPT !.pc = "done"]
    /\ UNCHANGED <<collectorVars, reconcilerVars, enumeratorVars, crawlerVars, session,
                   conversion>>

NextMerge ==
    \/ MergeSeed
    \/ MergeUpdate
    \/ MergeTag
    \/ MergeReturn

SpecMerge == InitMerge /\ [][NextMerge]_vars

(***************************************************************************)
(* Properties of the merge (under SpecMerge).                              *)
(***************************************************************************)
\* the parts of m that were merged and hold key k
Holders(m, k) == { i \in 1..Len(m.parts) : Applied(m, i) /\ k \in DOMAIN m.parts[i] }

\* the earliest of them
FirstHolder(m, k) == CHOOSE i \in Holders(m, k) : \A j \in Holders(m, k) : i <= j

\* C23: when the record of an entity has been merged from its fetch results
\* in sequence, every field a merged result holds has in the record the
\* value of the earliest result that holds it: no later result has
\* overwritten it.
C23_EarlierValueKept ==
    merge.pc = "done" =>
       \A k \in UNION { DOMAIN merge.parts[i] : i \in 1..Len(merge.parts) } :
          Holders(merge, k) # {} =>
             /\ k \in DOMAIN merge.merged
             /\ merge.merged[k] = merge.parts[FirstHolder(merge, k)][k]

(***************************************************************************)
(* Further properties of the collector (under Spec).                       *)
(***************************************************************************)
\* s.lower(), on the letters of the exchange prefixes
lower(s) ==
    [i \in 1..Len(s) |->
        CASE s[i] = "S" -> "s" [] s[i] = "H" -> "h" [] s[i] = "Z" -> "z" [] OTHER -> s[i]]

\* C24: the list get_all_stocks returns holds no two codes that are equal
\* ignoring letter case, whatever duplicates or case variants the listing
\* queries return.
C24_UniverseDeduplicated ==
    call.op = "get_all_stocks" =>
       \A i, j \in DOMAIN call.list :
          lower(call.list[i]) = lower(call.list[j]) => i = j

\* the codes a segment of a run is drawn from: the bucket of its board, or
\* the whole universe in collect_all_data
Bucket(seg) ==
    IF seg.board = "all" THEN run.universe
    ELSE filter_stocks_by_board(run.universe, seg.board, 1, <<>>)

\* C25: with a maximum m >= 0 (max_stocks_per_board, max_total_stocks) each
\* segment of the output holds at most m records, those of the first m codes
\* of its bucket in enumeration order; only None means unlimited.
C25_MaximumRespected ==
    (run.kind \in {"board", "all"} /\ run.entered /\ run.max.some) =>
       \A i \in DOMAIN run.segments :
          LET seg == run.segments[i]
          IN  /\ Len(seg.data_list) <= run.max.v
              /\ seg.stocks = SubSeq(Bucket(seg), 1, Min(run.max.v, Len(Bucket(seg))))

(***************************************************************************)
(* Further properties of the crawler (under SpecCrawl).                    *)
(***************************************************************************)
\* C26: a crawl_* call with a requested worker count of 0 does not fail: it
\* processes the stocks in serial mode and returns normally with every
\* listed stock processed.
C26_ZeroWorkersSerial ==
    crawl.max_workers = 0 =>
       /\ crawl.pc # "raised"
       /\ crawl.pc = "returned" =>
             /\ crawl.collected = DOMAIN crawl.stock_items
             /\ \A i \in DOMAIN tasks : tasks[i].state \in {"done", "failed"}

\* the boards in whose bucket filter_stocks_by_board puts the one code
BucketsOf(stock_code) ==
    { BoardOrder[b] : b \in { c \in DOMAIN BoardOrder :
          filter_stocks_by_board(<<stock_code>>, BoardOrder[c], 1, <<>>) = <<stock_code>> } }

\* C27: the buckets agree with the classifier.  A code is in the bucket of X
\* exactly when _get_stock_board returns X, in at most one bucket, and in
\* none when it is classified Other; a collect_board_data run holds each code
\* in the segment of its board only and no code classified Other, while a
\* collect_all_data run holds a record labelled Other for every such code it
\* processes (all of the universe when no maximum is given).
C27_BucketsAgree ==
    /\ classified # NoBoard =>
          /\ BucketsOf(classified.code) = {classified.board} \ {"Other"}
          /\ classified.board = "Other" => BucketsOf(classified.code) = {}
    /\ (run.kind = "board" /\ run.entered) =>
          /\ \A i \in DOMAIN run.segments : \A j \in DOMAIN run.segments[i].stocks :
                _get_stock_board(run.segments[i].stocks[j]) = run.segments[i].board
          /\ \A u \in DOMAIN run.universe :
                _get_stock_board(run.universe[u]) = "Other" =>
                   \A i \in DOMAIN run.segments : \A j \in DOMAIN run.segments[i].data_list :
                      run.segments[i].data_list[j]["stock_code"] # Str(run.universe[u])
          /\ ~run.max.some =>
                \A u \in DOMAIN run.universe :
                   _get_stock_board(run.universe[u]) # "Other" =>
                      \E i \in DOMAIN run.segments :
                         /\ run.segments[i].board = _get_stock_board(run.universe[u])
                         /\ \E j \in DOMAIN run.segments[i].stocks :
                               run.segments[i].stocks[j] = run.universe[u]
    /\ (run.kind = "all" /\ run.entered /\ ~run.raised) =>
          LET seg == run.segments[1]
          IN  /\ ~run.max.some => seg.stocks = run.universe
              /\ Len(seg.data_list) = Len(seg.stocks)
              /\ \A j \in DOMAIN seg.stocks :
                    /\ seg.data_list[j]["stock_code"] = Str(seg.stocks[j])
                    /\ seg.data_list[j]["board"] = Str(<<_get_stock_board(seg.stocks[j])>>)

\* a collect_board_data run over a universe of a main-board code and a code
\* classified Other has returned one segment
C27_Witness ==
    /\ run.kind = "board"
    /\ run.entered
    /\ run.universe = <<SampleCode, CodeOther>>
    /\ Len(run.segments) = 1
    /\ run.segments[1].board = "MainBoard"

\* C28: whenever get_all_stocks or get_stock_indicator_data returns a result
\* produced by adapter S, the current-source state names S: data_source = S
\* and data_sources[current_source_index] = S.
C28_CurrentSourceIsUsed ==
    (call.op # "none" /\ call.from # "none") =>
       /\ data_source = call.from
       /\ data_sources[current_source_index + 1] = call.from

(***************************************************************************)
(* Further properties of main (under SpecMain).                            *)
(***************************************************************************)
\* C29: when login() succeeded on baostock, the logout() call that main makes
\* when the program ends performs bs.logout, whatever switch_to_next_source
\* calls happened in between.
C29_LoginMatchedByLogout ==
    (session.pc = "ended" /\ lg = "ok") => session.logged_out

(***************************************************************************)
(* safe_float_convert on its own: the cells of the baostock rows are       *)
(* strings (src/aqu142.py 447-457, 486-529); Init draws one, Convert       *)
(* applies the conversion to it.                                           *)
(***************************************************************************)
\* the characters the cells are built from: a sign, a point, a digit and a
\* character that belongs to no number
ConvertChars == {"-", ".", "1", "x"}

\* longest string drawn character by character
MaxChars == 3

\* len(value) == 10 (line 380): the length of a date such as 2024-10-31
DateLength == 10

\* all strings over ConvertChars of at most n characters
Strings(n) == UNION {[1..k -> ConvertChars] : k \in 0..n}

\* s followed by zeros up to DateLength characters
Padded(s) == s \o [i \in 1..(DateLength - Len(s)) |-> "0"]

\* the cells drawn: the short strings, the strings of exactly DateLength
\* characters that begin with one or two of ConvertChars, a date, and
\* strings longer than DateLength
Cells ==
    Strings(MaxChars)
      \cup {Padded(s) : s \in Strings(2) \ {<<>>}}
      \cup {DateCell, DateCell \o <<"1">>, <<"-">> \o Padded(<<"1", ".">>)}

InitConvert ==
    /\ InitCollectorIdle
    /\ ReconcilerIdle
    /\ EnumeratorIdle
    /\ CrawlerIdle
    /\ session = NoSession
    /\ merge = NoMerge
    /\ \E value \in Cells :
          conversion = [pc |-> "called", value |-> value, result |-> Zero]

\* the call returns (lines 376-384); ValueError and TypeError are caught
\* (383-384), nothing else is raised on a string
Convert ==
    /\ conversion.pc = "called"
    /\ conversion' = [conversion EXCEPT !.result = safe_float_convert(conversion.value),
                                        !.pc = "returned"]
    /\ UNCHANGED <<collectorVars, reconcilerVars, enumeratorVars, crawlerVars, session,
                   merge>>

NextConvert == Convert

SpecConvert == InitConvert /\ [][NextConvert]_vars

(***************************************************************************)
(* Properties of the conversion (under SpecConvert).                       *)
(***************************************************************************)
\* C30: safe_float_convert returns the numeric value of every string that
\* parses as a number, negative numbers and strings of any length included,
\* and 0.0 for every other string (empty, date-shaped, unparsable).
C30_NumbersConverted ==
    conversion.pc = "returned" =>
       conversion.result = IF float(conversion.value).ok
                           THEN float(conversion.value).v
                           ELSE Zero
====
